---- MODULE Spec2Model ----
(***************************************************************************)
(* Model of raiden's Matrix transport                                      *)
(* (raiden/network/transport/matrix/transport.py): the per-peer            *)
(* _RetryQueue, the MatrixTransport that owns the queues, the room         *)
(* selection used by _send_raw, the inbound pipeline and room creation.    *)
(*                                                                         *)
(* Scheduling is gevent's: a greenlet runs until it blocks (a lock, an     *)
(* event wait, a queue join, network I/O), so every action below is one    *)
(* run of a greenlet from one blocking point to the next.                  *)
(***************************************************************************)
EXTENDS Integers, Sequences, FiniteSets, TLC

\* ------------------------------------------------------------------ bounds
MaxRetriers == 2
MaxTime == 1
MaxQueueLen == 3
MaxBroadcast == 1
MaxInvites == 1
MaxBackoffTime == 26
\* callers of _maybe_create_room_for_address that wait for one room_creation_lock
MaxWaiting == 1

\* --------------------------------------------------------- program constants
RETRY_QUEUE_IDLE_AFTER == 10
\* transport._config.retry_interval and .retries_before_backoff, in clock ticks
retry_interval == 1
retries_before_backoff == 1
\* utils.JOIN_RETRIES, scaled down
JOIN_RETRIES == 2
\* make_message_batches' size cap, in the unit of TextSize
MATRIX_MAX_BATCH_SIZE == 3

\* ------------------------------------------------------------------- values
Peers == {"p1", "p2"}
RetrierIds == 1..MaxRetriers
\* the value of _address_to_retrier.get(receiver) when there is no entry (None)
NoRetrier == 0
NoRoom == "none"

UNORDERED == "unordered"
QueueIds == {UNORDERED, "q1"}
MessageIds == {1, 2}

Retrieable(id) == [type |-> "Retrieable", id |-> id]
DeliveredMsg(id) == [type |-> "Delivered", id |-> id]

\* MessageSerializer.serialize: the JSON text of a message
Serialize(m) == <<"json", m.type, m.id>>

QueueIdentifier(recipient, cid) == [recipient |-> recipient, canonical_identifier |-> cid]

\* ---------------------------------------------------------------- variables
VARIABLES
    \* MatrixTransport
    stop_event,                    \* _stop_event is set
    raiden_service,                \* _raiden_service is not None
    starting,                      \* _starting
    transport_greenlet,            \* the transport's own greenlet (runs _broadcast_worker)
    bw_pc,                         \* _broadcast_worker's position
    bw_batches,                    \* batches the broadcast worker still has to post
    broadcast_queue,               \* _broadcast_queue: messages put and not yet got
    unfinished_tasks,              \* _broadcast_queue.unfinished_tasks
    broadcast_event,               \* _broadcast_event is set
    prioritize_broadcast_messages, \* _prioritize_broadcast_messages
    address_to_retrier,            \* _address_to_retrier
    address_to_room_ids,           \* _address_to_room_ids
    client_rooms,                  \* _client.rooms (ids)
    invite_only,                   \* room.invite_only
    presence,                      \* the presence the node set: "online"/"offline"
    stopping,                      \* the progress of a running stop()
    known_addresses,               \* _address_mgr: the whitelisted addresses
    broadcast_room_of,             \* _broadcast_rooms
    invite_queue,                  \* _invite_queue
    deferred_invites,              \* the greenlet of _process_queued_invites is scheduled
    creating,                      \* _maybe_create_room_for_address under room_creation_lock
    create_room_calls,             \* history: the create_room calls issued, by any node
    address_to_userids,            \* _address_mgr: the user ids registered for an address
    last_creation,                 \* history: the room, the members and the valid user ids
                                   \* at the end of the last room creation, by address
    \* the peers as nodes: each runs _maybe_create_room_for_address for us
    peer_stop_event,               \* the peer's _stop_event is set
    peer_room,                     \* the peer's _get_room_for_address(us) finds a room
    peer_pc,                       \* the peer's position in _maybe_create_room_for_address
    \* _RetryQueue objects, by id
    receiver,                      \* receiver, or "none" while the id is unused
    message_queue,                 \* _message_queue
    notify_event,                  \* _notify_event is set
    lock,                          \* _lock is held
    idle_since,                    \* _idle_since
    greenlet,                      \* state of the queue's greenlet
    pc,                            \* where the running greenlet is blocked
    sending,                       \* batches of the pass in progress, head in flight
    linked,                        \* greenlet.link_exception(transport.on_error) is pending
    \* environment
    reachability,                  \* _address_mgr.get_address_reachability
    queueids_to_queues,            \* the application's queues (message ids per queue)
    now,                           \* time.time()
    \* callers blocked on a queue's lock
    main,                          \* the greenlet calling start() / stop()
    sender,                        \* the greenlet calling send_async()
    sync,                          \* the client's greenlet: sync batches, presence
    \* history
    send_raw_call,                 \* the last _send_raw call
    room_posts,                    \* rooms that got a text from _send_raw
    lost,                          \* texts removed from a queue and never posted
    removed_in_pass,               \* entries the current/last pass removed
    inbox,                         \* the last sync batch handled and what came of it
    last_enqueue,                  \* the last enqueue: its queue, whether it was a duplicate,
                                   \* whether its receiver was REACHABLE then
    broadcast_posts,               \* what the broadcast worker posted, by room
    send_async_raised,             \* the send_async calls that raised, with the exception
    start_log,                     \* the steps of the last start() call, in order
    accepted_before_start,         \* what send_async took before start() was called
    broadcast_joins                \* the names the last start() called join_broadcast_room with

tvars == <<stop_event, raiden_service, starting, transport_greenlet, presence, stopping>>
bvars == <<bw_pc, bw_batches, broadcast_queue, unfinished_tasks, broadcast_event,
           prioritize_broadcast_messages>>
createvars == <<creating, create_room_calls, address_to_userids, last_creation,
                peer_stop_event, peer_room, peer_pc>>
roomvars == <<address_to_room_ids, client_rooms, invite_only, known_addresses,
              broadcast_room_of, invite_queue, deferred_invites, createvars>>
rqvars == <<receiver, message_queue, notify_event, lock, idle_since, greenlet, pc, sending,
            linked>>
envvars == <<reachability, queueids_to_queues, now>>
callervars == <<main, sender, sync>>
histvars == <<send_raw_call, room_posts, lost, removed_in_pass>>
loghist == <<inbox, last_enqueue, broadcast_posts, send_async_raised, start_log,
             accepted_before_start, broadcast_joins>>
vars == <<tvars, bvars, roomvars, address_to_retrier, rqvars, envvars, callervars, histvars,
          loghist>>

\* ------------------------------------------------------------------- rooms
\* The rooms of the homeserver the model knows: one private room per peer and
\* the two broadcast rooms of the configuration, the discovery room, which lists
\* its alias in room.aliases, and the path-finding room, which has it only as
\* canonical alias.  "priv3" is the room a second create_room for the peer with
\* the higher address makes.  An alias is its list of "_"-separated parts.
RoomIds == {"priv1", "priv2", "priv3", "balias", "bcanon", "multi", "lone"}
DiscoveryAlias == <<"raiden", "1", "discovery">>
PathFindingAlias == <<"raiden", "1", "path_finding">>
NoAlias == <<>>

\* config.broadcast_rooms
broadcast_rooms == {"discovery", "path_finding"}

\* room.aliases
aliases(room) == IF room = "balias" THEN {DiscoveryAlias} ELSE {}

\* room.canonical_alias
canonical_alias(room) ==
    CASE room = "balias" -> DiscoveryAlias
      [] room = "bcanon" -> PathFindingAlias
      [] OTHER -> NoAlias

\* `suffix in room_alias` on strings
Contains(suffix, alias) == \E i \in DOMAIN alias : alias[i] = suffix

UserOf(address) == <<"user", address>>
SelfUser == <<"user", "self">>
\* a user whose display name is not a signature of its user id
Stranger == <<"user", "nobody">>

\* room.get_joined_members(), by user id
joined_members(room) ==
    CASE room = "priv1" -> {SelfUser, UserOf("p1")}
      [] room \in {"priv2", "priv3"} -> {SelfUser, UserOf("p2")}
      [] room = "lone" -> {SelfUser, Stranger}
      [] OTHER -> {SelfUser} \cup {UserOf(p) : p \in Peers}

\* MatrixTransport._is_broadcast_room: the canonical alias is added to a local
\* set, but the test runs over room.aliases
is_broadcast_room(room) ==
    \E suffix \in broadcast_rooms : \E room_alias \in aliases(room) :
        Contains(suffix, room_alias)

\* MatrixTransport._get_room_ids_for_address, on given values of
\* _address_to_room_ids, _client.rooms and room.invite_only
room_ids_for(room_ids, rooms, private, address) ==
    SelectSeq(room_ids[address], LAMBDA room_id : room_id \in rooms /\ private[room_id])

get_room_ids_for_address(address) ==
    room_ids_for(address_to_room_ids, client_rooms, invite_only, address)

\* the user ids of the address whose presence is in USER_PRESENCE_REACHABLE_STATES
online_userids(address) ==
    IF reachability[address] = "REACHABLE" THEN {UserOf(address)} ELSE {}

\* MatrixTransport._get_room_for_address
get_room_for_address(address, require_online_peer) ==
    LET room_candidates ==
            SelectSeq(get_room_ids_for_address(address),
                      LAMBDA room : ~is_broadcast_room(room))
        with_online_peer ==
            SelectSeq(room_candidates,
                      LAMBDA room : online_userids(address) \cap joined_members(room) # {})
    IN  IF room_candidates = <<>> THEN NoRoom
        ELSE IF ~require_online_peer THEN Head(room_candidates)
        ELSE IF with_online_peer = <<>> THEN NoRoom
        ELSE Head(with_online_peer)

\* a write that puts the room at the end of the list
set_room_id_last(room_ids, rooms, private, address, room_id) ==
    [room_ids EXCEPT ![address] =
        SelectSeq(room_ids_for(room_ids, rooms, private, address),
                  LAMBDA r : r # room_id) \o <<room_id>>]

\* MatrixTransport._set_room_id_for_address: the new _address_to_room_ids
set_room_id_for(room_ids, rooms, private, address, room_id) ==
    [room_ids EXCEPT ![address] =
        <<room_id>> \o SelectSeq(room_ids_for(room_ids, rooms, private, address),
                                 LAMBDA r : r # room_id)]

\* validate_userid_signature: the address a user's display name is signed by
validate_userid_signature(user) ==
    IF user \in {UserOf(p) : p \in Peers} \cup {SelfUser} THEN user[2] ELSE "none"

\* addresses as numbers, for their order
AddressNumber(address) ==
    CASE address = "p1" -> 1 [] address = "self" -> 2 [] address = "p2" -> 3 [] OTHER -> 0

\* my_place_or_yours: the lower of two addresses
my_place_or_yours(our_address, partner_address) ==
    IF AddressNumber(our_address) < AddressNumber(partner_address)
    THEN our_address ELSE partner_address

\* ------------------------------------------------------- expiration generator
\* timeout_exponential_backoff(retries, timeout, maximum): the k-th timeout, k >= 1
RECURSIVE Doubled(_, _, _)
Doubled(timeout, maximum, steps) ==
    IF steps = 0 \/ timeout >= maximum THEN timeout
    ELSE Doubled(IF timeout * 2 < maximum THEN timeout * 2 ELSE maximum, maximum, steps - 1)

timeout_exponential_backoff(retries, timeout, maximum, k) ==
    IF k <= retries \/ k = 1 THEN timeout
    ELSE IF timeout >= maximum THEN maximum
    ELSE Doubled(timeout, maximum, k - (IF retries < 1 THEN 1 ELSE retries))

\* The state of an entry's _expiration_generator: k timeouts taken so far (0: not
\* started), next the deadline of the running timeout.
FreshGenerator == [k |-> 0, next |-> 0]

\* a generator whose first value waits for the first timeout
expiration_generator_late(gen, t) ==
    IF gen.k = 0 \/ t < gen.next
    THEN [ready |-> FALSE, gen |-> [k |-> 1, next |-> gen.next]]
    ELSE [ready |-> TRUE, gen |-> [k |-> gen.k + 1, next |-> t + retry_interval]]

\* a generator that takes retry_interval for every timeout
expiration_generator_flat(gen, t) ==
    IF gen.k > 0 /\ t < gen.next
    THEN [ready |-> FALSE, gen |-> gen]
    ELSE [ready |-> TRUE, gen |-> [k |-> gen.k + 1, next |-> t + retry_interval]]

\* a generator that yields True one tick before its timeout has passed
expiration_generator_early(gen, t) ==
    IF gen.k > 0 /\ t + 1 < gen.next
    THEN [ready |-> FALSE, gen |-> gen]
    ELSE [ready |-> TRUE,
          gen |-> [k |-> gen.k + 1,
                   next |-> t + timeout_exponential_backoff(retries_before_backoff,
                                   retry_interval, retry_interval * 10, gen.k + 1)]]

\* next(expiration_generator) at time t: the value yielded and the new state
expiration_generator(gen, t) ==
    IF gen.k > 0 /\ t < gen.next
    THEN [ready |-> FALSE, gen |-> gen]
    ELSE [ready |-> TRUE,
          gen |-> [k |-> gen.k + 1,
                   next |-> t + timeout_exponential_backoff(retries_before_backoff,
                                   retry_interval, retry_interval * 10, gen.k + 1)]]

\* ------------------------------------------------------------ _check_and_send
\* _RetryQueue._MessageData
MessageData(queue_identifier, message) ==
    [queue_identifier |-> queue_identifier, message |-> message,
     text |-> Serialize(message), expiration_generator |-> FreshGenerator]

\* isinstance(message, (Delivered, Ping, Pong))
IsTransportMessage(message) == message.type \in {"Delivered", "Ping", "Pong"}

\* isinstance(message, RetrieableMessage)
IsRetrieable(message) == message.type \in {"Retrieable", "Processed"}

\* a test that finds every message still queued
message_is_in_queue_always(message_data) == TRUE

\* message_is_in_queue, the closure of _check_and_send
message_is_in_queue(message_data) ==
    IF message_data.queue_identifier \notin DOMAIN queueids_to_queues
    THEN FALSE
    ELSE \E send_event \in queueids_to_queues[message_data.queue_identifier] :
            IsRetrieable(message_data.message) /\ send_event = message_data.message.id

\* a loop that collects a transport message and keeps it
VisitKeeping(message_data) ==
    IF IsTransportMessage(message_data.message)
    THEN [remove |-> FALSE, collect |-> TRUE, gen |-> message_data.expiration_generator]
    ELSE [remove |-> ~message_is_in_queue(message_data), collect |-> FALSE,
          gen |-> message_data.expiration_generator]

\* One turn of the loop over the snapshot of _message_queue: whether the entry is
\* removed, whether its text is collected, and its generator afterwards.
Visit(message_data) ==
    IF IsTransportMessage(message_data.message)
    THEN [remove |-> TRUE, collect |-> TRUE, gen |-> message_data.expiration_generator]
    ELSE IF ~message_is_in_queue(message_data)
    THEN [remove |-> TRUE, collect |-> FALSE, gen |-> message_data.expiration_generator]
    ELSE LET e == expiration_generator(message_data.expiration_generator, now)
         IN  [remove |-> FALSE, collect |-> e.ready, gen |-> e.gen]

\* _message_queue after the loop
RECURSIVE QueueAfterPass(_)
QueueAfterPass(queue) ==
    IF queue = <<>> THEN <<>>
    ELSE LET v == Visit(Head(queue))
         IN  (IF v.remove THEN <<>>
              ELSE <<[Head(queue) EXCEPT !.expiration_generator = v.gen]>>)
             \o QueueAfterPass(Tail(queue))

\* the texts collected, last entry first
MessageTextsReversed(queue) ==
    LET collected == SelectSeq(queue, LAMBDA message_data : Visit(message_data).collect)
    IN  [i \in 1..Len(collected) |-> collected[Len(collected) + 1 - i].text]

\* message_texts after the loop
RECURSIVE MessageTexts(_)
MessageTexts(queue) ==
    IF queue = <<>> THEN <<>>
    ELSE (IF Visit(Head(queue)).collect THEN <<Head(queue).text>> ELSE <<>>)
         \o MessageTexts(Tail(queue))

\* the entries the loop removes
RemovedByPass(queue) ==
    {[queue_identifier |-> queue[i].queue_identifier, message |-> queue[i].message] :
        i \in {j \in DOMAIN queue : Visit(queue[j]).remove}}

\* len(message_text): a Delivered is shorter than a protocol message
TextSize(text) == IF text[2] = "Delivered" THEN 1 ELSE 2

\* make_message_batches: the texts in order, a batch (here: the list of its
\* texts) closed before the text that would take it over MATRIX_MAX_BATCH_SIZE
RECURSIVE Batches(_, _, _)
Batches(message_texts, current_batch, size) ==
    IF message_texts = <<>>
    THEN IF current_batch = <<>> THEN <<>> ELSE <<current_batch>>
    ELSE IF size + TextSize(Head(message_texts)) > MATRIX_MAX_BATCH_SIZE /\ size > 0
    THEN <<current_batch>>
         \o Batches(Tail(message_texts), <<Head(message_texts)>>,
                    TextSize(Head(message_texts)))
    ELSE Batches(Tail(message_texts), Append(current_batch, Head(message_texts)),
                 size + TextSize(Head(message_texts)))

make_message_batches(message_texts) == Batches(message_texts, <<>>, 0)

\* the texts of a batch as a set
TextsOf(batch) == {batch[i] : i \in DOMAIN batch}

RECURSIVE TextsOfAll(_)
TextsOfAll(batches) ==
    IF batches = <<>> THEN {} ELSE TextsOf(Head(batches)) \cup TextsOfAll(Tail(batches))

\* texts of removed transport messages among a set of texts
OnceOnlyTexts(removed) ==
    {Serialize(e.message) : e \in {x \in removed : IsTransportMessage(x.message)}}

\* ------------------------------------------------------------------- Init
NoCall == [receiver |-> "none", status |-> "none", room |-> NoRoom, first |-> FALSE,
           data |-> <<>>, outcome |-> "none"]
Idle == [op |-> "idle"]
NoEnqueue == [r |-> NoRetrier, duplicate |-> FALSE, reachable |-> FALSE]
NotCreating == [pc |-> "none", tries |-> 0, members |-> {}, room |-> NoRoom, waiting |-> 0,
                partner_users |-> {}]
NoCreation == [room |-> NoRoom, members |-> {}, valid_user_ids |-> {}, turn |-> FALSE]
NoBatch == [batch |-> <<>>, accepted |-> <<>>, acks |-> <<>>, delivered |-> FALSE]

Init ==
    /\ stop_event = TRUE
    /\ raiden_service = FALSE
    /\ starting = FALSE
    /\ transport_greenlet = "new"
    /\ presence = "offline"
    /\ stopping = Idle
    /\ bw_pc = "none"
    /\ bw_batches = <<>>
    /\ broadcast_queue = <<>>
    /\ unfinished_tasks = 0
    /\ broadcast_event = FALSE
    /\ prioritize_broadcast_messages = TRUE
    /\ address_to_retrier = [p \in Peers |-> NoRetrier]
    /\ address_to_room_ids = [p \in Peers |-> <<>>]
    /\ client_rooms = {}
    /\ invite_only = [room \in RoomIds |-> FALSE]
    /\ known_addresses = {}
    /\ broadcast_room_of = <<>>
    /\ invite_queue = <<>>
    /\ deferred_invites = FALSE
    /\ creating = [p \in Peers |-> NotCreating]
    /\ create_room_calls = {}
    /\ address_to_userids = [p \in Peers |-> {}]
    /\ last_creation = [p \in Peers |-> NoCreation]
    /\ peer_stop_event = [p \in Peers |-> FALSE]
    /\ peer_room = [p \in Peers |-> FALSE]
    /\ peer_pc = [p \in Peers |-> "none"]
    /\ receiver = [r \in RetrierIds |-> "none"]
    /\ message_queue = [r \in RetrierIds |-> <<>>]
    /\ notify_event = [r \in RetrierIds |-> FALSE]
    /\ lock = [r \in RetrierIds |-> FALSE]
    /\ idle_since = [r \in RetrierIds |-> 0]
    /\ greenlet = [r \in RetrierIds |-> "none"]
    /\ pc = [r \in RetrierIds |-> "none"]
    /\ sending = [r \in RetrierIds |-> <<>>]
    /\ linked = [r \in RetrierIds |-> FALSE]
    /\ reachability = [p \in Peers |-> "UNKNOWN"]
    /\ queueids_to_queues = <<>>
    /\ now = 0
    /\ main = Idle
    /\ sender = Idle
    /\ sync = Idle
    /\ send_raw_call = [r \in RetrierIds |-> NoCall]
    /\ room_posts = {}
    /\ lost = {}
    /\ removed_in_pass = [r \in RetrierIds |-> {}]
    /\ inbox = NoBatch
    /\ last_enqueue = NoEnqueue
    /\ broadcast_posts = {}
    /\ send_async_raised = {}
    /\ start_log = <<>>
    /\ accepted_before_start = {}
    /\ broadcast_joins = {}

\* ------------------------------------------------------------ _RetryQueue
\* bool(runnable): its greenlet was started and is not dead
Truthy(g) == g \in {"pending", "running"}

\* greenlet.ready(): the greenlet is dead
Ready(g) == g \in {"finished", "failed"}

\* an idle test that is late by one iteration
is_idle_late(idle) == idle > RETRY_QUEUE_IDLE_AFTER

\* _RetryQueue.is_idle
is_idle(idle) == idle >= RETRY_QUEUE_IDLE_AFTER

\* The end of an iteration of _run once the lock is released: exit when idle,
\* else wait on _notify_event.
EndIteration(r, idle) ==
    /\ lock' = [lock EXCEPT ![r] = FALSE]
    /\ greenlet' = [greenlet EXCEPT ![r] = IF is_idle(idle) THEN "finished" ELSE "running"]
    /\ pc' = [pc EXCEPT ![r] = IF is_idle(idle) THEN "none" ELSE "wait"]

\* a join that never waits
JoinedAtOnce == TRUE

\* _broadcast_queue.join() returns: every message put was marked done
BroadcastQueueJoined == unfinished_tasks = 0

\* a test that lets every reachability pass
AnyReachability(status) == TRUE

\* the test of _check_and_send on the reachability of the receiver
IsReachable(status) == status = "REACHABLE"

\* history: the iteration of queue r has sent and removed nothing
NoPass(r) ==
    /\ send_raw_call' = [send_raw_call EXCEPT ![r] = NoCall]
    /\ removed_in_pass' = [removed_in_pass EXCEPT ![r] = {}]
    /\ UNCHANGED <<room_posts, lost>>

\* _check_and_send from the reachability test on: the loop over the queue and
\* the first _send_raw.  A _send_raw that finds a room blocks in room.send_text
\* with the lock held; one that finds none returns at once, and so do the ones
\* for the batches after it.
CheckAndSendBody(r, idle) ==
    LET address == receiver[r]
        status == reachability[address]
        queue == message_queue[r]
        batches == make_message_batches(MessageTexts(queue))
        room == get_room_for_address(address, TRUE)
        call == [receiver |-> address, status |-> status, room |-> room, first |-> TRUE]
    IN  IF ~IsReachable(status)
        THEN /\ EndIteration(r, idle)
             /\ NoPass(r)
             /\ UNCHANGED <<message_queue, sending>>
        ELSE /\ message_queue' = [message_queue EXCEPT ![r] = QueueAfterPass(queue)]
             /\ removed_in_pass' = [removed_in_pass EXCEPT ![r] = RemovedByPass(queue)]
             /\ UNCHANGED room_posts
             /\ IF batches = <<>>
                THEN /\ EndIteration(r, idle)
                     /\ send_raw_call' = [send_raw_call EXCEPT ![r] = NoCall]
                     /\ UNCHANGED <<sending, lost>>
                ELSE IF room = NoRoom
                THEN /\ EndIteration(r, idle)
                     /\ send_raw_call' = [send_raw_call EXCEPT ![r] =
                            call @@ [data |-> batches[Len(batches)], outcome |-> "no_room"]]
                     /\ lost' = lost \cup (TextsOfAll(batches)
                                            \cap OnceOnlyTexts(RemovedByPass(queue)))
                     /\ UNCHANGED sending
                ELSE /\ lock' = [lock EXCEPT ![r] = TRUE]
                     /\ pc' = [pc EXCEPT ![r] = "send"]
                     /\ sending' = [sending EXCEPT ![r] = batches]
                     /\ send_raw_call' = [send_raw_call EXCEPT ![r] =
                            call @@ [data |-> Head(batches), outcome |-> "in_flight"]]
                     /\ greenlet' = [greenlet EXCEPT ![r] = "running"]
                     /\ UNCHANGED lost

\* One iteration of the loop of _run, from the test of _stop_event to the next
\* blocking point.
LoopIteration(r) ==
    IF stop_event
    THEN /\ greenlet' = [greenlet EXCEPT ![r] = "finished"]
         /\ pc' = [pc EXCEPT ![r] = "none"]
         /\ UNCHANGED <<message_queue, notify_event, lock, idle_since, sending, histvars>>
    ELSE /\ notify_event' = [notify_event EXCEPT ![r] = FALSE]
         /\ IF message_queue[r] = <<>>
            THEN /\ idle_since' = [idle_since EXCEPT ![r] = @ + 1]
                 /\ EndIteration(r, idle_since[r] + 1)
                 /\ NoPass(r)
                 /\ UNCHANGED <<message_queue, sending>>
            ELSE /\ idle_since' = [idle_since EXCEPT ![r] = 0]
                 /\ IF ~Truthy(transport_greenlet) \/ stop_event
                    THEN /\ EndIteration(r, 0)
                         /\ NoPass(r)
                         /\ UNCHANGED <<message_queue, sending>>
                    ELSE IF prioritize_broadcast_messages /\ ~BroadcastQueueJoined
                    THEN /\ lock' = [lock EXCEPT ![r] = TRUE]
                         /\ pc' = [pc EXCEPT ![r] = "join"]
                         /\ greenlet' = [greenlet EXCEPT ![r] = "running"]
                         /\ NoPass(r)
                         /\ UNCHANGED <<message_queue, sending>>
                    ELSE CheckAndSendBody(r, 0)

\* The greenlet of a started _RetryQueue runs _run: the assertion, then the loop.
RetrierStart(r) ==
    /\ greenlet[r] = "pending"
    /\ ~lock[r]
    /\ IF raiden_service
       THEN LoopIteration(r)
       ELSE /\ greenlet' = [greenlet EXCEPT ![r] = "failed"]
            /\ UNCHANGED <<message_queue, notify_event, lock, idle_since, pc, sending,
                           histvars>>
    /\ UNCHANGED <<tvars, bvars, roomvars, address_to_retrier, receiver, linked, envvars,
                   callervars, loghist>>

\* _notify_event.wait(retry_interval) returns because the event was set
RetrierNotified(r) ==
    /\ greenlet[r] = "running" /\ pc[r] = "wait"
    /\ notify_event[r]
    /\ ~lock[r]
    /\ LoopIteration(r)
    /\ UNCHANGED <<tvars, bvars, roomvars, address_to_retrier, receiver, linked, envvars,
                   callervars, loghist>>

\* _notify_event.wait(retry_interval) returns because of the timeout
RetrierTimeout(r) ==
    /\ greenlet[r] = "running" /\ pc[r] = "wait"
    /\ ~notify_event[r]
    /\ ~lock[r]
    /\ LoopIteration(r)
    /\ UNCHANGED <<tvars, bvars, roomvars, address_to_retrier, receiver, linked, envvars,
                   callervars, loghist>>

\* _broadcast_queue.join() returns: every broadcast message was marked done
RetrierJoined(r) ==
    /\ greenlet[r] = "running" /\ pc[r] = "join"
    /\ BroadcastQueueJoined
    /\ CheckAndSendBody(r, idle_since[r])
    /\ UNCHANGED <<notify_event, idle_since>>
    /\ UNCHANGED <<tvars, bvars, roomvars, address_to_retrier, receiver, linked, envvars,
                   callervars, loghist>>

\* room.send_text of the batch in flight returns; _check_and_send goes on to
\* the _send_raw of the next batch.
RetrierSent(r) ==
    /\ greenlet[r] = "running" /\ pc[r] = "send"
    /\ LET address == receiver[r]
           rest == Tail(sending[r])
           room == get_room_for_address(address, TRUE)
           call == [receiver |-> address, status |-> reachability[address], room |-> room,
                    first |-> FALSE]
       IN  /\ room_posts' = room_posts \cup {send_raw_call[r].room}
           /\ IF rest = <<>>
              THEN /\ EndIteration(r, idle_since[r])
                   /\ sending' = [sending EXCEPT ![r] = <<>>]
                   /\ send_raw_call' = [send_raw_call EXCEPT ![r].outcome = "posted"]
                   /\ UNCHANGED lost
              ELSE IF room = NoRoom
              THEN /\ EndIteration(r, idle_since[r])
                   /\ sending' = [sending EXCEPT ![r] = <<>>]
                   /\ send_raw_call' = [send_raw_call EXCEPT ![r] =
                          call @@ [data |-> rest[Len(rest)], outcome |-> "no_room"]]
                   /\ lost' = lost \cup (TextsOfAll(rest)
                                          \cap OnceOnlyTexts(removed_in_pass[r]))
              ELSE /\ sending' = [sending EXCEPT ![r] = rest]
                   /\ send_raw_call' = [send_raw_call EXCEPT ![r] =
                          call @@ [data |-> Head(rest), outcome |-> "in_flight"]]
                   /\ UNCHANGED <<lock, greenlet, pc, lost>>
    /\ UNCHANGED <<message_queue, notify_event, idle_since, removed_in_pass>>
    /\ UNCHANGED <<tvars, bvars, roomvars, address_to_retrier, receiver, linked, envvars,
                   callervars, loghist>>

\* room.send_text of the batch in flight raises (MatrixRequestError): nothing in
\* _send_raw, _check_and_send or _run catches it, the greenlet dies.
RetrierSendRaises(r) ==
    /\ greenlet[r] = "running" /\ pc[r] = "send"
    /\ lock' = [lock EXCEPT ![r] = FALSE]
    /\ greenlet' = [greenlet EXCEPT ![r] = "failed"]
    /\ pc' = [pc EXCEPT ![r] = "none"]
    /\ sending' = [sending EXCEPT ![r] = <<>>]
    /\ send_raw_call' = [send_raw_call EXCEPT ![r].outcome = "raised"]
    /\ lost' = lost \cup (TextsOfAll(sending[r]) \cap OnceOnlyTexts(removed_in_pass[r]))
    /\ UNCHANGED <<message_queue, notify_event, idle_since, room_posts, removed_in_pass>>
    /\ UNCHANGED <<tvars, bvars, roomvars, address_to_retrier, receiver, linked, envvars,
                   callervars, loghist>>

\* ---------------------------------------------------------------- enqueue
\* an enqueue that appends without looking at the queue
enqueue_unchecked(queue, queue_identifier, message) ==
    Append(queue, MessageData(queue_identifier, message))

\* _RetryQueue.enqueue under the lock: the queue afterwards
enqueue(queue, queue_identifier, message) ==
    IF \E i \in DOMAIN queue :
          queue_identifier = queue[i].queue_identifier /\ message = queue[i].message
    THEN queue
    ELSE Append(queue, MessageData(queue_identifier, message))

\* The fields of the _RetryQueue objects and the map to them that _get_retrier
\* and enqueue read and write, as one value.
Retriers ==
    [address_to_retrier |-> address_to_retrier, receiver |-> receiver,
     greenlet |-> greenlet, message_queue |-> message_queue,
     notify_event |-> notify_event, idle_since |-> idle_since, linked |-> linked,
     last_enqueue |-> last_enqueue]

\* queues a blocked caller still holds
Referenced ==
    (IF sender.op = "enqueue" THEN {sender.r} ELSE {})
    \cup (IF sync.op \in {"notify", "acks"} THEN {sync.r} ELSE {})

\* a _get_retrier that makes a new queue at every call
AlwaysNewRetrier(st, address) == TRUE

\* a _get_retrier that keeps an entry whose greenlet is dead
NeedsNewRetrierIfNone(st, address) == st.address_to_retrier[address] = NoRetrier

\* _get_retrier replaces the entry: there is none, or its greenlet is dead
NeedsNewRetrier(st, address) ==
    \/ st.address_to_retrier[address] = NoRetrier
    \/ Ready(st.greenlet[st.address_to_retrier[address]])

\* ids free for a new object: never used, or of a dead object nothing refers to
UnusedIds(st) ==
    {r \in RetrierIds :
        \/ st.receiver[r] = "none"
        \/ /\ Ready(st.greenlet[r])
           /\ \A a \in Peers : st.address_to_retrier[a] # r
           /\ r \notin Referenced}

\* MatrixTransport._get_retrier: the queue it returns (a new object has the
\* least free id)
get_retrier(st, address) ==
    IF NeedsNewRetrier(st, address)
    THEN CHOOSE r \in UnusedIds(st) : \A r2 \in UnusedIds(st) : r <= r2
    ELSE st.address_to_retrier[address]

\* MatrixTransport._get_retrier: the objects afterwards; a new one is started
\* and linked to on_error
after_get_retrier(st, address) ==
    LET r == get_retrier(st, address)
    IN  IF NeedsNewRetrier(st, address)
        THEN [st EXCEPT !.address_to_retrier[address] = r,
                        !.receiver[r] = address,
                        !.greenlet[r] = "pending",
                        !.message_queue[r] = <<>>,
                        !.notify_event[r] = FALSE,
                        !.idle_since[r] = 0,
                        !.linked[r] = TRUE]
        ELSE st

\* an enqueue on queue r that appends and leaves the loop to its timeout
enqueue_on_silent(st, r, queue_identifier, message) ==
    [st EXCEPT !.message_queue[r] = enqueue(@, queue_identifier, message),
               !.last_enqueue =
                   [r |-> r,
                    duplicate |-> \E i \in DOMAIN st.message_queue[r] :
                        /\ st.message_queue[r][i].queue_identifier = queue_identifier
                        /\ st.message_queue[r][i].message = message,
                    reachable |-> reachability[st.receiver[r]] = "REACHABLE"]]

\* enqueue on queue r: the append under the lock followed by the notify() that
\* ends it; a message already queued returns before the notify()
enqueue_on(st, r, queue_identifier, message) ==
    [st EXCEPT !.message_queue[r] = enqueue(@, queue_identifier, message),
               !.notify_event[r] =
                   IF enqueue(st.message_queue[r], queue_identifier, message)
                          = st.message_queue[r]
                   THEN @ ELSE TRUE,
               !.last_enqueue =
                   [r |-> r,
                    duplicate |-> \E i \in DOMAIN st.message_queue[r] :
                        /\ st.message_queue[r][i].queue_identifier = queue_identifier
                        /\ st.message_queue[r][i].message = message,
                    reachable |-> reachability[st.receiver[r]] = "REACHABLE"]]

\* an enqueue that does not wait for the lock
WouldNeverBlock(st, address) == FALSE

\* enqueue on the queue _get_retrier returns would block on its _lock
WouldBlock(st, address) ==
    ~NeedsNewRetrier(st, address) /\ lock[st.address_to_retrier[address]]

\* the model's bounds allow the call: an id for a new object, room in the queue
WithinBounds(st, address, queue_identifier, message) ==
    IF NeedsNewRetrier(st, address)
    THEN UnusedIds(st) # {}
    ELSE Len(enqueue(st.message_queue[st.address_to_retrier[address]],
                     queue_identifier, message)) <= MaxQueueLen

\* _get_retrier(address).enqueue(queue_identifier, message) by a caller that
\* gets the lock at once
get_retrier_and_enqueue(st, address, queue_identifier, message) ==
    enqueue_on(after_get_retrier(st, address), get_retrier(st, address),
               queue_identifier, message)

SetRetriers(st) ==
    /\ address_to_retrier' = st.address_to_retrier
    /\ receiver' = st.receiver
    /\ greenlet' = st.greenlet
    /\ message_queue' = st.message_queue
    /\ notify_event' = st.notify_event
    /\ idle_since' = st.idle_since
    /\ linked' = st.linked
    /\ last_enqueue' = st.last_enqueue
    /\ UNCHANGED <<lock, pc, sending>>

\* is_binary_address: the value is the 20 bytes of an address
is_binary_address(value) == value \in Peers \cup {"self"}

\* a send_async that turns away only the addresses that are not binary
send_async_checks_address_only(queue_identifier, message) ==
    IF ~is_binary_address(queue_identifier.recipient) THEN "ValueError" ELSE "none"

\* the checks at the head of send_async: the exception raised, if any
send_async_checks(queue_identifier, message) ==
    IF ~is_binary_address(queue_identifier.recipient) THEN "ValueError"
    ELSE IF IsTransportMessage(message) THEN "ValueError"
    ELSE "none"

\* start() was not called yet
NotStarted == stop_event /\ transport_greenlet = "new"

\* MatrixTransport.send_async: the checks, then _send_with_retry
SendAsync(queue_identifier, message) ==
    /\ sender = Idle
    /\ IF send_async_checks(queue_identifier, message) # "none"
       THEN /\ send_async_raised' = send_async_raised \cup
                   {[queue_identifier |-> queue_identifier, message |-> message,
                     error |-> send_async_checks(queue_identifier, message)]}
            /\ UNCHANGED <<address_to_retrier, rqvars, last_enqueue, sender,
                           accepted_before_start>>
       ELSE /\ WithinBounds(Retriers, queue_identifier.recipient, queue_identifier, message)
            /\ UNCHANGED send_async_raised
            /\ accepted_before_start' =
                  IF NotStarted
                  THEN accepted_before_start
                       \cup {[queue_identifier |-> queue_identifier, message |-> message]}
                  ELSE accepted_before_start
            /\ IF WouldBlock(Retriers, queue_identifier.recipient)
               THEN /\ sender' = [op |-> "enqueue",
                                  r |-> address_to_retrier[queue_identifier.recipient],
                                  queue_identifier |-> queue_identifier, message |-> message]
                    /\ UNCHANGED <<address_to_retrier, rqvars, last_enqueue>>
               ELSE /\ SetRetriers(get_retrier_and_enqueue(Retriers, queue_identifier.recipient,
                                                           queue_identifier, message))
                    /\ UNCHANGED sender
    /\ UNCHANGED <<tvars, bvars, roomvars, envvars, main, sync, histvars, inbox,
                   broadcast_posts, start_log, broadcast_joins>>

\* the enqueue of a blocked send_async gets the lock
SendAsyncResumes ==
    /\ sender.op = "enqueue"
    /\ ~lock[sender.r]
    /\ SetRetriers(enqueue_on(Retriers, sender.r, sender.queue_identifier, sender.message))
    /\ sender' = Idle
    /\ UNCHANGED <<tvars, bvars, roomvars, envvars, main, sync, histvars, inbox,
                   broadcast_posts, send_async_raised, accepted_before_start, start_log,
                   broadcast_joins>>

\* ------------------------------------------------------------- environment
\* The application's state machine adds a send event to one of its queues,
AppQueuePut(queue_identifier, message_identifier) ==
    /\ queueids_to_queues' =
          IF queue_identifier \in DOMAIN queueids_to_queues
          THEN [queueids_to_queues EXCEPT ![queue_identifier] = @ \cup {message_identifier}]
          ELSE queueids_to_queues @@ (queue_identifier :> {message_identifier})
    /\ queueids_to_queues' # queueids_to_queues
    /\ UNCHANGED <<tvars, bvars, roomvars, address_to_retrier, rqvars, reachability, now,
                   callervars, histvars, loghist>>

\* removes one (the message was acknowledged),
AppQueueRemove(queue_identifier, message_identifier) ==
    /\ queue_identifier \in DOMAIN queueids_to_queues
    /\ message_identifier \in queueids_to_queues[queue_identifier]
    /\ queueids_to_queues' =
          [queueids_to_queues EXCEPT ![queue_identifier] = @ \ {message_identifier}]
    /\ UNCHANGED <<tvars, bvars, roomvars, address_to_retrier, rqvars, reachability, now,
                   callervars, histvars, loghist>>

\* or drops a queue (the channel is gone).
AppQueueDelete(queue_identifier) ==
    /\ queue_identifier \in DOMAIN queueids_to_queues
    /\ queueids_to_queues' =
          [q \in DOMAIN queueids_to_queues \ {queue_identifier} |-> queueids_to_queues[q]]
    /\ UNCHANGED <<tvars, bvars, roomvars, address_to_retrier, rqvars, reachability, now,
                   callervars, histvars, loghist>>

\* the application holds the send event of a message in a queue
IsQueued(queue_identifier, message_identifier) ==
    /\ queue_identifier \in DOMAIN queueids_to_queues
    /\ message_identifier \in queueids_to_queues[queue_identifier]

\* time passes
Tick ==
    /\ now < MaxTime
    /\ now' = now + 1
    /\ UNCHANGED <<tvars, bvars, roomvars, address_to_retrier, rqvars, reachability,
                   queueids_to_queues, callervars, histvars, loghist>>

\* the sync and message workers of the client run
Listening == presence = "online"

\* The address manager sees the reachability of an address change and calls
\* MatrixTransport._address_reachability_changed.
AddressReachabilityChanged(address, new_reachability) ==
    /\ Listening /\ sync = Idle
    /\ address \in known_addresses
    /\ reachability[address] # new_reachability
    /\ reachability' = [reachability EXCEPT ![address] = new_reachability]
    /\ LET r == address_to_retrier[address]
       IN  IF new_reachability = "REACHABLE" /\ r # NoRetrier /\ Truthy(greenlet[r])
           THEN IF lock[r]
                THEN /\ sync' = [op |-> "notify", r |-> r]
                     /\ UNCHANGED notify_event
                ELSE /\ notify_event' = [notify_event EXCEPT ![r] = TRUE]
                     /\ UNCHANGED sync
           ELSE UNCHANGED <<sync, notify_event>>
    /\ UNCHANGED <<tvars, bvars, roomvars, address_to_retrier, receiver, message_queue, lock,
                   idle_since, greenlet, pc, sending, queueids_to_queues, now, main, sender,
                   histvars, linked, loghist>>

\* the notify() of a blocked _address_reachability_changed gets the lock
ReachabilityNotifyResumes ==
    /\ sync.op = "notify"
    /\ ~lock[sync.r]
    /\ notify_event' = [notify_event EXCEPT ![sync.r] = TRUE]
    /\ sync' = Idle
    /\ UNCHANGED <<tvars, bvars, roomvars, address_to_retrier, receiver, message_queue, lock,
                   idle_since, greenlet, pc, sending, linked, envvars, main, sender,
                   histvars, loghist>>

\* ----------------------------------------------------------------- inbound
\* A Matrix message of a sync batch is [room, valid_type, sender, body]; a line
\* of its body is [ok, type, id, sender]: whether it parses, and the message
\* with the address its signature recovers to.

\* validate_and_parse_message: the lines that parse and are signed by the peer
validate_and_parse_message(body, peer_address) ==
    LET parsed == SelectSeq(body, LAMBDA line : line.ok /\ line.sender = peer_address)
    IN  [i \in DOMAIN parsed |->
            [type |-> parsed[i].type, id |-> parsed[i].id, sender |-> parsed[i].sender]]

\* MatrixTransport._handle_text (its RuntimeError for a broadcast room cannot
\* be reached from _handle_sync_messages, which skips those rooms)
handle_text(message) ==
    LET peer_address == validate_userid_signature(message.sender)
    IN  IF ~message.valid_type THEN <<>>
        ELSE IF message.sender = SelfUser THEN <<>>
        ELSE IF peer_address = "none" THEN <<>>
        ELSE IF is_broadcast_room(message.room) THEN <<>>
        ELSE IF peer_address \notin known_addresses THEN <<>>
        ELSE IF \A i \in DOMAIN get_room_ids_for_address(peer_address) :
                    get_room_ids_for_address(peer_address)[i] # message.room THEN <<>>
        ELSE validate_and_parse_message(message.body, peer_address)

\* all_messages of _handle_sync_messages
RECURSIVE AllMessages(_)
AllMessages(sync_messages) ==
    IF sync_messages = <<>> THEN <<>>
    ELSE (IF is_broadcast_room(Head(sync_messages).room) THEN <<>>
          ELSE handle_text(Head(sync_messages)))
         \o AllMessages(Tail(sync_messages))

\* an acknowledgement of whatever was parsed
NeedsDeliveredAlways(message) == TRUE

\* isinstance(message, (Processed, SignedRetrieableMessage)) and message.sender
NeedsDelivered(message) == IsRetrieable(message) /\ message.sender # "none"

\* The loop of _handle_sync_messages over the messages to acknowledge, up to the
\* first enqueue_unordered that blocks on a queue's lock: the objects then, the
\* messages left (the head is the blocked one), and whether the model's bounds
\* allowed it.
RECURSIVE EnqueueDelivered(_, _)
EnqueueDelivered(st, messages) ==
    IF messages = <<>> THEN [st |-> st, rest |-> <<>>, ok |-> TRUE]
    ELSE LET message == Head(messages)
             queue_identifier == QueueIdentifier(message.sender, UNORDERED)
             delivered_message == DeliveredMsg(message.id)
         IN  IF WouldBlock(st, message.sender)
             THEN [st |-> st, rest |-> messages, ok |-> TRUE]
             ELSE IF ~WithinBounds(st, message.sender, queue_identifier, delivered_message)
             THEN [st |-> st, rest |-> messages, ok |-> FALSE]
             ELSE EnqueueDelivered(
                      get_retrier_and_enqueue(st, message.sender, queue_identifier,
                                              delivered_message),
                      Tail(messages))

\* an on_messages that does not wait for the acknowledgements
on_messages_at_once(after) == TRUE

\* _raiden_service.on_messages(all_messages) is reached: the loop of
\* acknowledgements has run to its end
on_messages_called(after) == after.rest = <<>>

\* what is left of _handle_sync_messages after the loop stopped at `after`:
\* blocked, or through to on_messages
AfterDelivered(after, sync_messages, all_messages) ==
    LET to_ack == SelectSeq(all_messages, NeedsDelivered)
        done == Len(to_ack) - Len(after.rest)
    IN  /\ after.ok
        /\ SetRetriers(after.st)
        /\ sync' = IF after.rest = <<>> THEN Idle
                   ELSE [op |-> "acks", rest |-> after.rest, all |-> all_messages,
                         r |-> after.st.address_to_retrier[Head(after.rest).sender]]
        /\ inbox' = [batch |-> sync_messages, accepted |-> all_messages,
                     acks |-> SubSeq(to_ack, 1, done),
                     delivered |-> on_messages_called(after)]

\* MatrixTransport._handle_sync_messages, called by the client with a batch
SyncMessages(sync_messages) ==
    /\ Listening /\ sync = Idle
    /\ \A i \in DOMAIN sync_messages : sync_messages[i].room \in client_rooms
    /\ IF stop_event
       THEN /\ inbox' = [NoBatch EXCEPT !.batch = sync_messages]
            /\ UNCHANGED <<address_to_retrier, rqvars, sync, last_enqueue>>
       ELSE AfterDelivered(
                EnqueueDelivered(Retriers,
                                 SelectSeq(AllMessages(sync_messages), NeedsDelivered)),
                sync_messages, AllMessages(sync_messages))
    /\ UNCHANGED <<tvars, bvars, roomvars, envvars, main, sender, histvars, broadcast_posts,
                   send_async_raised, accepted_before_start, start_log,
                   broadcast_joins>>

\* the enqueue_unordered a _handle_sync_messages was blocked in gets the lock
SyncMessagesResumes ==
    /\ sync.op = "acks"
    /\ ~lock[sync.r]
    /\ LET message == Head(sync.rest)
           st == enqueue_on(Retriers, sync.r, QueueIdentifier(message.sender, UNORDERED),
                            DeliveredMsg(message.id))
       IN  AfterDelivered(EnqueueDelivered(st, Tail(sync.rest)),
                          inbox.batch, sync.all)
    /\ UNCHANGED <<tvars, bvars, roomvars, envvars, main, sender, histvars, broadcast_posts,
                   send_async_raised, accepted_before_start, start_log,
                   broadcast_joins>>

\* ----------------------------------------------------------------- invites
\* An invite is [room_id, sender, invite_event, join_event, private_room]: the
\* room, the user of the invite event, whether the state holds our invite event
\* and the sender's join event, and whether its join rule is "invite".

\* a test that takes every invite
InviteAlwaysValid(invite) == TRUE

\* the tests of _handle_invite on the state of an invite: our invite event, a
\* sender whose display name is signed, the sender's join event
InviteValid(invite) ==
    /\ invite.invite_event
    /\ validate_userid_signature(invite.sender) # "none"
    /\ invite.join_event

\* _handle_invite once join_room has returned the room: _client.rooms,
\* room.invite_only and _address_to_room_ids afterwards
after_join_room(st, invite) ==
    LET peer_address == validate_userid_signature(invite.sender)
        rooms == st.rooms \cup {invite.room_id}
        private == [st.private EXCEPT ![invite.room_id] = invite.private_room]
    IN  IF is_broadcast_room(invite.room_id) THEN [st EXCEPT !.rooms = rooms]
        ELSE [rooms |-> rooms, private |-> private,
              room_ids |-> set_room_id_for(st.room_ids, rooms, private, peer_address,
                                           invite.room_id)]

\* MatrixTransport._handle_invite once the invite is not queued, with a
\* join_room that succeeds at once
handle_invite(st, invite) ==
    IF ~InviteValid(invite) THEN st ELSE after_join_room(st, invite)

Rooms == [rooms |-> client_rooms, private |-> invite_only, room_ids |-> address_to_room_ids]

SetRooms(st) ==
    /\ client_rooms' = st.rooms
    /\ invite_only' = st.private
    /\ address_to_room_ids' = st.room_ids

\* the invite listener: MatrixTransport._handle_invite
HandleInvite(invite) ==
    /\ Listening \/ starting
    /\ sync = Idle
    /\ IF stop_event
       THEN UNCHANGED <<client_rooms, invite_only, address_to_room_ids, invite_queue>>
       ELSE IF starting
       THEN /\ Len(invite_queue) < MaxInvites
            /\ invite_queue' = Append(invite_queue, invite)
            /\ UNCHANGED <<client_rooms, invite_only, address_to_room_ids>>
       ELSE /\ SetRooms(handle_invite(Rooms, invite))
            /\ UNCHANGED invite_queue
    /\ UNCHANGED <<tvars, bvars, known_addresses, broadcast_room_of, deferred_invites, createvars,
                   address_to_retrier, rqvars, envvars, callervars, histvars, loghist>>

\* _handle_invite of a valid invite whose first join_room raises
\* MatrixRequestError: the handler waits on _stop_event for retry_interval
\* (in tenths of a second)
HandleInviteJoinFails(invite) ==
    /\ Listening /\ ~starting /\ ~stop_event
    /\ sync = Idle
    /\ InviteValid(invite)
    /\ sync' = [op |-> "join", invite |-> invite, attempts |-> 1, retry_interval |-> 1]
    /\ UNCHANGED <<tvars, bvars, roomvars, address_to_retrier, rqvars, envvars, main, sender,
                   histvars, loghist>>

\* `if self._stop_event.wait(retry_interval): break`
StopBreaks(stopped) == stopped

\* _stop_event.wait(retry_interval) returns in the loop of join attempts.  The
\* event set: the loop is left with room = None and the assertion after it
\* fails.  All JOIN_RETRIES attempts made: the last error is raised.  Else the
\* next join_room, which returns the room (ok) or raises again.
JoinRetried(ok) ==
    /\ sync.op = "join"
    /\ IF StopBreaks(stop_event)
       THEN /\ sync' = [op |-> "raised", error |-> "AssertionError",
                        invite |-> sync.invite, attempts |-> sync.attempts]
            /\ UNCHANGED <<client_rooms, invite_only, address_to_room_ids>>
       ELSE IF sync.attempts >= JOIN_RETRIES
       THEN /\ sync' = [op |-> "raised", error |-> "MatrixRequestError",
                        invite |-> sync.invite, attempts |-> sync.attempts]
            /\ UNCHANGED <<client_rooms, invite_only, address_to_room_ids>>
       ELSE IF ok
       THEN /\ sync' = Idle
            /\ SetRooms(after_join_room(Rooms, sync.invite))
       ELSE /\ sync' = [sync EXCEPT !.attempts = @ + 1, !.retry_interval = @ * 2]
            /\ UNCHANGED <<client_rooms, invite_only, address_to_room_ids>>
    /\ UNCHANGED <<tvars, bvars, known_addresses, broadcast_room_of, invite_queue,
                   deferred_invites, createvars, address_to_retrier, rqvars, envvars, main,
                   sender, histvars, loghist>>

RECURSIVE HandleInvites(_, _)
HandleInvites(st, invites) ==
    IF invites = <<>> THEN st
    ELSE HandleInvites(handle_invite(st, Head(invites)), Tail(invites))

\* MatrixTransport._process_queued_invites, scheduled by start().  (While
\* _starting is set its loop would append again each invite it handles; it is
\* let run once the start has finished.)
ProcessQueuedInvites ==
    /\ deferred_invites
    /\ ~starting
    /\ deferred_invites' = FALSE
    /\ invite_queue' = <<>>
    /\ IF stop_event
       THEN UNCHANGED <<client_rooms, invite_only, address_to_room_ids>>
       ELSE SetRooms(HandleInvites(Rooms, invite_queue))
    /\ UNCHANGED <<tvars, bvars, known_addresses, broadcast_room_of, createvars,
                   address_to_retrier, rqvars, envvars, callervars, histvars, loghist>>

\* ----------------------------------------------------------- room creation
\* the private room the homeserver creates for us and a peer
PrivateRoom(address) == IF address = "p1" THEN "priv1" ELSE "priv2"

\* the room id the homeserver gives the next room we create for a peer
NewRoom(address) ==
    IF PrivateRoom(address) \in client_rooms THEN "priv3" ELSE PrivateRoom(address)

\* `with self.room_creation_lock[address]` ends: the lock goes to a waiting
\* caller, which sends its search_user_directory, or is free
LockReleased(c) ==
    IF c.waiting > 0
    THEN [NotCreating EXCEPT !.pc = "search", !.waiting = c.waiting - 1]
    ELSE NotCreating

\* an entry in which every node that finds no room creates one
maybe_create_room_unelected(our_address, partner_address, stopped, room) ==
    IF stopped THEN "stopped"
    ELSE IF room # NoRoom THEN "exists"
    ELSE "create"

\* _maybe_create_room_for_address up to room_creation_lock: why it returns, or
\* "create" when it goes on to create the room
maybe_create_room_entry(our_address, partner_address, stopped, room) ==
    IF stopped THEN "stopped"
    ELSE IF room # NoRoom THEN "exists"
    ELSE IF our_address # my_place_or_yours(our_address, partner_address) THEN "not_creator"
    ELSE "create"

\* MatrixTransport.whitelist: add_address, then _maybe_create_room_for_address
\* up to its first request (search_user_directory)
Whitelist(address) ==
    /\ raiden_service /\ main = Idle
    /\ creating[address].pc = "none"
    /\ known_addresses' = known_addresses \cup {address}
    /\ creating' = [creating EXCEPT ![address] =
          IF maybe_create_room_entry("self", address, stop_event,
                                     get_room_for_address(address, FALSE)) = "create"
          THEN [NotCreating EXCEPT !.pc = "search"] ELSE NotCreating]
    /\ UNCHANGED <<tvars, bvars, address_to_room_ids, client_rooms, invite_only,
                   broadcast_room_of, invite_queue, deferred_invites, create_room_calls,
                   address_to_userids, last_creation,
                   peer_stop_event, peer_room, peer_pc, address_to_retrier, rqvars, envvars,
                   callervars, histvars, loghist>>

\* MatrixTransport.whitelist in another greenlet (one of start()'s pool, or
\* start_health_check) while room_creation_lock[address] is held: the tests
\* before the lock, then the caller waits for the lock
WhitelistConcurrent(address) ==
    /\ raiden_service
    /\ creating[address].pc # "none"
    /\ creating[address].waiting < MaxWaiting
    /\ known_addresses' = known_addresses \cup {address}
    /\ creating' = [creating EXCEPT ![address].waiting =
          IF maybe_create_room_entry("self", address, stop_event,
                                     get_room_for_address(address, FALSE)) = "create"
          THEN @ + 1 ELSE @]
    /\ UNCHANGED <<tvars, bvars, address_to_room_ids, client_rooms, invite_only,
                   broadcast_room_of, invite_queue, deferred_invites, create_room_calls,
                   address_to_userids, last_creation,
                   peer_stop_event, peer_room, peer_pc, address_to_retrier, rqvars, envvars,
                   callervars, histvars, loghist>>

\* search_user_directory returns: without a validated user of the partner the
\* method returns, else it issues create_room
CreateSearched(address, partner_users) ==
    /\ creating[address].pc = "search"
    /\ IF partner_users = {}
       THEN /\ creating' = [creating EXCEPT ![address] = LockReleased(@)]
            /\ UNCHANGED create_room_calls
       ELSE /\ creating' = [creating EXCEPT ![address].pc = "create",
                                             ![address].partner_users = partner_users]
            /\ create_room_calls' =
                  create_room_calls \cup {[creator |-> "self", partner |-> address]}
    /\ UNCHANGED <<address_to_userids, last_creation>>
    /\ UNCHANGED <<tvars, bvars, address_to_room_ids, client_rooms, invite_only,
                   known_addresses, broadcast_room_of, invite_queue, deferred_invites,
                   peer_stop_event, peer_room, peer_pc, address_to_retrier, rqvars, envvars,
                   callervars, histvars, loghist>>

\* create_room returns the new room; the first get_joined_members is sent
CreateRoomReturned(address) ==
    /\ creating[address].pc = "create"
    /\ NewRoom(address) \notin client_rooms
    /\ client_rooms' = client_rooms \cup {NewRoom(address)}
    /\ invite_only' = [invite_only EXCEPT ![NewRoom(address)] = TRUE]
    /\ creating' = [creating EXCEPT ![address].pc = "poll", ![address].room = NewRoom(address)]
    /\ UNCHANGED <<tvars, bvars, address_to_room_ids, known_addresses, broadcast_room_of,
                   invite_queue, deferred_invites, create_room_calls,
                   address_to_userids, last_creation, peer_stop_event,
                   peer_room, peer_pc, address_to_retrier, rqvars, envvars, callervars,
                   histvars, loghist>>

\* a test that finds no member unexpected
NoneUnexpected(members, valid_user_ids) == FALSE

\* has_unexpected_user_ids of _maybe_create_room_for_address
has_unexpected_user_ids(members, valid_user_ids) ==
    \E member \in members : member \notin valid_user_ids

\* The end of _maybe_create_room_for_address after its loop: the room is left
\* when a member is neither one of the partner's users nor ours, else the
\* partner's users and the room are registered
CreateFinished(address, members) ==
    /\ creating' = [creating EXCEPT ![address] = LockReleased(@)]
    /\ last_creation' = [last_creation EXCEPT ![address] =
          [room |-> creating[address].room, members |-> members,
           valid_user_ids |-> creating[address].partner_users \cup {SelfUser},
           turn |-> ~@.turn]]
    /\ IF has_unexpected_user_ids(members, creating[address].partner_users \cup {SelfUser})
       THEN /\ client_rooms' = client_rooms \ {creating[address].room}
            /\ UNCHANGED <<address_to_room_ids, address_to_userids>>
       ELSE /\ address_to_userids' = [address_to_userids EXCEPT ![address] =
                  @ \cup creating[address].partner_users]
            /\ address_to_room_ids' =
                  set_room_id_for(address_to_room_ids, client_rooms, invite_only,
                                  address, creating[address].room)
            /\ UNCHANGED client_rooms

\* get_joined_members returns `members`: the loop ends when the partner has
\* joined, else the method sleeps on _stop_event
CreatePolled(address, members) ==
    /\ creating[address].pc = "poll"
    /\ IF UserOf(address) \in members
       THEN CreateFinished(address, members)
       ELSE /\ creating' = [creating EXCEPT ![address].pc = "sleep",
                                             ![address].members = members]
            /\ UNCHANGED <<address_to_room_ids, client_rooms, address_to_userids, last_creation>>
    /\ UNCHANGED <<tvars, bvars, invite_only, known_addresses, broadcast_room_of,
                   invite_queue, deferred_invites, create_room_calls, peer_stop_event,
                   peer_room, peer_pc, address_to_retrier, rqvars, envvars, callervars,
                   histvars, loghist>>

\* _stop_event.wait(retry_interval) returns: the method returns when the event
\* is set, the loop ends after JOIN_RETRIES turns, else the next turn polls
CreateSlept(address) ==
    /\ creating[address].pc = "sleep"
    /\ IF stop_event
       THEN /\ creating' = [creating EXCEPT ![address] = LockReleased(@)]
            /\ UNCHANGED <<address_to_room_ids, client_rooms, address_to_userids, last_creation>>
       ELSE IF creating[address].tries + 1 >= JOIN_RETRIES
       THEN CreateFinished(address, creating[address].members)
       ELSE /\ creating' = [creating EXCEPT ![address].pc = "poll",
                                             ![address].tries = @ + 1]
            /\ UNCHANGED <<address_to_room_ids, client_rooms, address_to_userids, last_creation>>
    /\ UNCHANGED <<tvars, bvars, invite_only, known_addresses, broadcast_room_of,
                   invite_queue, deferred_invites, create_room_calls, peer_stop_event,
                   peer_room, peer_pc, address_to_retrier, rqvars, envvars, callervars,
                   histvars, loghist>>

\* A peer's node whitelists us: its _maybe_create_room_for_address(us) up to
\* search_user_directory
PeerWhitelist(peer) ==
    /\ peer_pc[peer] = "none"
    /\ maybe_create_room_entry(peer, "self", peer_stop_event[peer],
                               IF peer_room[peer] THEN PrivateRoom(peer) ELSE NoRoom)
          = "create"
    /\ peer_pc' = [peer_pc EXCEPT ![peer] = "search"]
    /\ UNCHANGED <<tvars, bvars, address_to_room_ids, client_rooms, invite_only,
                   known_addresses, broadcast_room_of, invite_queue, deferred_invites,
                   creating, create_room_calls,
                   address_to_userids, last_creation, peer_stop_event, peer_room,
                   address_to_retrier, rqvars, envvars, callervars, histvars, loghist>>

\* the peer's search returns our user: it issues create_room and in the end
\* registers the room
PeerCreates(peer) ==
    /\ peer_pc[peer] = "search"
    /\ peer_pc' = [peer_pc EXCEPT ![peer] = "none"]
    /\ create_room_calls' = create_room_calls \cup {[creator |-> peer, partner |-> "self"]}
    /\ UNCHANGED <<address_to_userids, last_creation>>
    /\ peer_room' = [peer_room EXCEPT ![peer] = TRUE]
    /\ UNCHANGED <<tvars, bvars, address_to_room_ids, client_rooms, invite_only,
                   known_addresses, broadcast_room_of, invite_queue, deferred_invites,
                   creating, peer_stop_event, address_to_retrier, rqvars, envvars,
                   callervars, histvars, loghist>>

\* the peer joins the room we created for it (its _handle_invite)
PeerJoins(peer) ==
    /\ PrivateRoom(peer) \in client_rooms
    /\ [creator |-> "self", partner |-> peer] \in create_room_calls
    /\ ~peer_room[peer]
    /\ peer_room' = [peer_room EXCEPT ![peer] = TRUE]
    /\ UNCHANGED <<tvars, bvars, address_to_room_ids, client_rooms, invite_only,
                   known_addresses, broadcast_room_of, invite_queue, deferred_invites,
                   creating, create_room_calls,
                   address_to_userids, last_creation, peer_stop_event, peer_pc,
                   address_to_retrier, rqvars, envvars, callervars, histvars, loghist>>

\* the peer's transport stops or starts
PeerStopsOrStarts(peer) ==
    /\ peer_stop_event' = [peer_stop_event EXCEPT ![peer] = ~@]
    /\ UNCHANGED <<tvars, bvars, address_to_room_ids, client_rooms, invite_only,
                   known_addresses, broadcast_room_of, invite_queue, deferred_invites,
                   creating, create_room_calls,
                   address_to_userids, last_creation, peer_room, peer_pc,
                   address_to_retrier, rqvars, envvars, callervars, histvars, loghist>>

\* ------------------------------------------------------------------ start
\* make_room_alias(chain_id, suffix): the name of a broadcast room
make_room_alias(suffix) == <<"raiden", "1", suffix>>

\* the room the homeserver resolves a broadcast alias to
join_broadcast_room(room_name) == IF room_name = DiscoveryAlias THEN "balias" ELSE "bcanon"

\* _client.rooms.values(), in order
RoomOrder == <<"priv1", "priv2", "priv3", "balias", "bcanon", "multi", "lone">>

\* an extraction that does not drop our own address
extract_all_addresses(members) ==
    {validate_userid_signature(user) : user \in members} \ {"none"}

\* MatrixTransport._extract_partner_addresses
extract_partner_addresses(members) ==
    {validate_userid_signature(user) : user \in members} \ {"none", "self"}

\* One turn of the loop of _initialize_room_inventory, on [room_ids, broadcast,
\* leave]: _address_to_room_ids, _broadcast_rooms and rooms_to_leave
InventoryRoom(st, room) ==
    LET room_aliases ==
            aliases(room) \cup (IF canonical_alias(room) # NoAlias
                                THEN {canonical_alias(room)} ELSE {})
        found == {broadcast_alias \in broadcast_rooms : <<broadcast_alias>> \in room_aliases}
        broadcast == IF found = {} THEN st.broadcast
                     ELSE LET key == <<CHOOSE broadcast_alias \in found : TRUE>>
                          IN  [k \in DOMAIN st.broadcast \cup {key} |->
                                  IF k = key THEN room ELSE st.broadcast[k]]
        partner_address == extract_partner_addresses(joined_members(room))
    IN  IF is_broadcast_room(room) \/ partner_address = {}
        THEN [st EXCEPT !.broadcast = broadcast]
        ELSE IF Cardinality(partner_address) = 1
        THEN [st EXCEPT !.broadcast = broadcast,
                        !.room_ids = set_room_id_for(st.room_ids, client_rooms, invite_only,
                                         CHOOSE address \in partner_address : TRUE, room)]
        ELSE [st EXCEPT !.broadcast = broadcast, !.leave = @ \cup {room}]

RECURSIVE InventoryRooms(_, _)
InventoryRooms(st, rooms) ==
    IF rooms = <<>> THEN st
    ELSE InventoryRooms(InventoryRoom(st, Head(rooms)), Tail(rooms))

\* MatrixTransport._initialize_room_inventory
initialize_room_inventory ==
    InventoryRooms([room_ids |-> address_to_room_ids, broadcast |-> broadcast_room_of,
                    leave |-> {}],
                   SelectSeq(RoomOrder, LAMBDA room : room \in client_rooms))

\* MatrixTransport._initialize_broadcast_rooms: the room names that pass
\* `if room_name not in self._broadcast_rooms`
broadcast_rooms_to_join(broadcast) ==
    {make_room_alias(suffix) : suffix \in broadcast_rooms} \ DOMAIN broadcast

\* MatrixTransport._initialize_broadcast_rooms: _broadcast_rooms afterwards
initialize_broadcast_rooms(broadcast) ==
    [k \in DOMAIN broadcast \cup broadcast_rooms_to_join(broadcast) |->
        IF k \in DOMAIN broadcast THEN broadcast[k] ELSE join_broadcast_room(k)]

\* start() up to its first request (login): the application starts a transport
\* that is stopped and whose greenlet has ended
\* -------------------------------------------------------------------- start
\* what start() does before it calls login(): _address_mgr.start()
StartHead == <<"address_mgr.start">>

\* a start() that starts the workers of the client before the first sync
StartStepsListenerFirst ==
    <<"login", "listener", "first_sync", "room_inventory", "broadcast_rooms", "sync_filter",
      "presence_online", "restart_retriers", "greenlet", "whitelist", "schedule_invites">>

\* what start() does from login() on, in the order of its statements: login,
\* _initialize_first_sync, _initialize_room_inventory,
\* _initialize_broadcast_rooms, create_sync_filter, start_listener_thread,
\* set_presence_state(ONLINE), the restart of the queues, the transport's own
\* greenlet, the whitelist pool, the greenlet of _process_queued_invites
StartSteps ==
    <<"login", "first_sync", "room_inventory", "broadcast_rooms", "sync_filter", "listener",
      "presence_online", "restart_retriers", "greenlet", "whitelist", "schedule_invites">>

\* a start() that lets the exception of login() through as it is
login_error_passed(error) == error

\* the except clauses around login(): what start() raises
login_error(error) ==
    IF error \in {"ValueError", "MatrixHttpLibError"} THEN "RaidenUnrecoverableError"
    ELSE error

\* The sync of _initialize_first_sync returns the rooms the user joined in
\* earlier runs, with their join rules.
FirstSync(rooms, private) ==
    /\ main.op = "start"
    /\ client_rooms = {} /\ rooms # {}
    /\ client_rooms' = rooms
    /\ invite_only' = [room \in RoomIds |-> room \in private]
    /\ UNCHANGED <<tvars, bvars, address_to_room_ids, known_addresses, broadcast_room_of,
                   invite_queue, deferred_invites, createvars, address_to_retrier, rqvars,
                   envvars, callervars, histvars, loghist>>

StartBegin ==
    /\ main = Idle /\ stopping = Idle
    /\ stop_event
    /\ ~Truthy(transport_greenlet)
    /\ stop_event' = FALSE
    /\ starting' = TRUE
    /\ raiden_service' = TRUE
    /\ start_log' = StartHead
    /\ broadcast_joins' = {}
    /\ main' = [op |-> "start"]
    /\ UNCHANGED <<transport_greenlet, presence, stopping, bvars, roomvars,
                   address_to_retrier, rqvars, envvars, sender, sync, histvars, inbox,
                   last_enqueue, broadcast_posts, send_async_raised, accepted_before_start>>

\* login() raises: a ValueError or a MatrixHttpLibError leaves start() as a
\* RaidenUnrecoverableError.  Nothing start() did so far is undone.
StartLoginFails(error) ==
    /\ main.op = "start"
    /\ start_log' = Append(start_log, login_error(error))
    /\ UNCHANGED broadcast_joins
    /\ main' = Idle
    /\ UNCHANGED <<tvars, bvars, roomvars, address_to_retrier, rqvars, envvars, sender, sync,
                   histvars, inbox, last_enqueue, broadcast_posts, send_async_raised, accepted_before_start>>

\* The rest of start(), login() having returned: the inventory and the rooms it leaves, the broadcast
\* rooms, presence, the restart of the queues that are not running, the
\* transport's greenlet, and the greenlet for the queued invites (the whitelist
\* given to start is empty)
StartFinish ==
    /\ main.op = "start"
    /\ LET inventory == initialize_room_inventory
           broadcast == initialize_broadcast_rooms(inventory.broadcast)
           restarted == {r \in RetrierIds :
                            /\ \E a \in Peers : address_to_retrier[a] = r
                            /\ ~Truthy(greenlet[r])}
       IN  /\ address_to_room_ids' = inventory.room_ids
           /\ broadcast_room_of' = broadcast
           /\ broadcast_joins' = broadcast_rooms_to_join(inventory.broadcast)
           /\ client_rooms' = (client_rooms \ inventory.leave)
                              \cup {broadcast[k] : k \in DOMAIN broadcast}
           /\ greenlet' = [r \in RetrierIds |->
                             IF r \in restarted THEN "pending" ELSE greenlet[r]]
           /\ linked' = [r \in RetrierIds |-> IF r \in restarted THEN FALSE ELSE linked[r]]
    /\ presence' = "online"
    /\ transport_greenlet' = "running"
    /\ bw_pc' = "start"
    /\ starting' = FALSE
    /\ deferred_invites' = TRUE
    /\ start_log' = start_log \o StartSteps
    /\ main' = Idle
    /\ UNCHANGED <<stop_event, raiden_service, stopping, bw_batches, broadcast_queue,
                   unfinished_tasks, broadcast_event, prioritize_broadcast_messages,
                   invite_only, known_addresses, invite_queue, createvars,
                   address_to_retrier, receiver, message_queue, notify_event, lock,
                   idle_since, pc, sending, envvars, sender, sync, histvars, inbox,
                   last_enqueue, broadcast_posts, send_async_raised, accepted_before_start>>

\* ------------------------------------------------------------------- stop
\* stop() past its test of _stop_event: the events are set, the loop over the
\* queues is next
BeginStop(by) ==
    /\ stop_event' = TRUE
    /\ broadcast_event' = TRUE
    /\ stopping' = [op |-> "notify", by |-> by,
                    todo |-> {r \in RetrierIds : \E a \in Peers : address_to_retrier[a] = r}]

\* the application calls stop() on a started transport
StopBegin ==
    /\ main = Idle /\ stopping = Idle
    /\ ~stop_event
    /\ BeginStop("main")
    /\ UNCHANGED <<raiden_service, starting, transport_greenlet, presence, bw_pc, bw_batches,
                   broadcast_queue, unfinished_tasks, prioritize_broadcast_messages,
                   roomvars, address_to_retrier, rqvars, envvars, callervars, histvars,
                   loghist>>

\* one turn of stop()'s loop: notify() on a queue that runs, which needs its lock
StopNotify ==
    /\ stopping.op = "notify"
    /\ stopping.todo # {}
    /\ LET r == CHOOSE r \in stopping.todo : \A r2 \in stopping.todo : r <= r2
       IN  /\ Truthy(greenlet[r]) => ~lock[r]
           /\ notify_event' = [notify_event EXCEPT ![r] = Truthy(greenlet[r]) \/ @]
           /\ stopping' = [stopping EXCEPT !.todo = @ \ {r}]
    /\ UNCHANGED <<stop_event, raiden_service, starting, transport_greenlet, presence, bvars,
                   roomvars, address_to_retrier, receiver, message_queue, lock, idle_since,
                   greenlet, pc, sending, linked, envvars, callervars, histvars, loghist>>

\* The rest of stop(): the greenlets of the queues have ended, the map is
\* emptied, the client's workers have ended, presence is set.  A stop() called
\* in the transport's greenlet is followed by the raise that ends it.
StopFinish ==
    /\ stopping.op = "notify"
    /\ stopping.todo = {}
    /\ \A a \in Peers :
          address_to_retrier[a] # NoRetrier => Ready(greenlet[address_to_retrier[a]])
    /\ sync = Idle
    /\ address_to_retrier' = [a \in Peers |-> NoRetrier]
    /\ presence' = "offline"
    /\ stopping' = Idle
    /\ transport_greenlet' =
          IF stopping.by = "transport" THEN "failed" ELSE transport_greenlet
    /\ bw_pc' = IF stopping.by = "transport" THEN "none" ELSE bw_pc
    /\ UNCHANGED <<stop_event, raiden_service, starting, bw_batches, broadcast_queue,
                   unfinished_tasks, broadcast_event, prioritize_broadcast_messages,
                   roomvars, rqvars, envvars, callervars, histvars, loghist>>

\* -------------------------------------------------------------- broadcast
\* MatrixTransport.broadcast
Broadcast(room, message) ==
    /\ unfinished_tasks < MaxBroadcast
    /\ broadcast_queue' = Append(broadcast_queue, [room |-> room, message |-> message])
    /\ unfinished_tasks' = unfinished_tasks + 1
    /\ broadcast_event' = TRUE
    /\ UNCHANGED <<tvars, bw_pc, bw_batches, prioritize_broadcast_messages, roomvars,
                   address_to_retrier, rqvars, envvars, callervars, histvars, loghist>>

\* the keys of `messages` in _broadcast_worker, in the order they were added
RECURSIVE RoomNames(_, _)
RoomNames(queue, seen) ==
    IF queue = <<>> THEN <<>>
    ELSE IF Head(queue).room \in seen THEN RoomNames(Tail(queue), seen)
    ELSE <<Head(queue).room>> \o RoomNames(Tail(queue), seen \cup {Head(queue).room})

\* the batches of one room; the last is followed by one task_done per message
BatchesOfRoom(queue, room) ==
    LET messages_for_room == SelectSeq(queue, LAMBDA item : item.room = room)
        batches == make_message_batches(
                       [i \in DOMAIN messages_for_room |->
                           Serialize(messages_for_room[i].message)])
    IN  [i \in DOMAIN batches |->
            [room |-> room, data |-> batches[i],
             done |-> IF i = Len(batches) THEN Len(messages_for_room) ELSE 0]]

RECURSIVE BatchesOfRooms(_, _)
BatchesOfRooms(queue, rooms) ==
    IF rooms = <<>> THEN <<>>
    ELSE BatchesOfRoom(queue, Head(rooms)) \o BatchesOfRooms(queue, Tail(rooms))

\* _broadcast(room_name, batch) up to send_text on the room of _broadcast_rooms
\* (start() has joined the rooms of every configured suffix), or its
\* RuntimeError for a name without a configured suffix
BroadcastRaises(room) == room \notin broadcast_rooms

\* An exception in _broadcast_worker reaches _run: stop(), then raise.  stop()
\* returns at once when _stop_event is set.
TransportFails ==
    IF stop_event
    THEN /\ transport_greenlet' = "failed"
         /\ bw_pc' = "none"
         /\ UNCHANGED <<stop_event, broadcast_event, stopping>>
    ELSE /\ BeginStop("transport")
         /\ bw_pc' = "stop"
         /\ UNCHANGED transport_greenlet

\* _broadcast_worker from the top of an iteration of its loop, after
\* _broadcast_event.wait returned or at the start of the greenlet
BroadcastWorker ==
    /\ transport_greenlet = "running"
    /\ bw_pc \in {"start", "wait"}
    /\ IF stop_event
       THEN /\ transport_greenlet' = "finished"
            /\ bw_pc' = "none"
            /\ UNCHANGED <<stop_event, stopping, bw_batches, broadcast_queue,
                           broadcast_event, prioritize_broadcast_messages>>
       ELSE LET batches == BatchesOfRooms(broadcast_queue, RoomNames(broadcast_queue, {}))
            IN  /\ broadcast_queue' = <<>>
                /\ IF batches = <<>>
                   THEN /\ prioritize_broadcast_messages' = FALSE
                        /\ broadcast_event' = FALSE
                        /\ bw_pc' = "wait"
                        /\ UNCHANGED <<stop_event, stopping, transport_greenlet, bw_batches>>
                   ELSE IF BroadcastRaises(Head(batches).room)
                   THEN /\ TransportFails
                        /\ UNCHANGED <<bw_batches, prioritize_broadcast_messages>>
                   ELSE /\ bw_batches' = batches
                        /\ broadcast_event' = FALSE
                        /\ bw_pc' = "send"
                        /\ UNCHANGED <<stop_event, stopping, transport_greenlet,
                                       prioritize_broadcast_messages>>
    /\ UNCHANGED <<raiden_service, starting, presence, unfinished_tasks, roomvars,
                   address_to_retrier, rqvars, envvars, callervars, histvars, loghist>>

\* send_text of the batch in flight returns: the task_done calls if it was the
\* last of its room, then the next batch, or the end of the iteration
BroadcastSent ==
    /\ transport_greenlet = "running"
    /\ bw_pc = "send"
    /\ LET batch == Head(bw_batches)
           rest == Tail(bw_batches)
       IN  /\ broadcast_posts' = broadcast_posts \cup
                 {[room |-> broadcast_room_of[make_room_alias(batch.room)],
                   data |-> batch.data]}
           /\ unfinished_tasks' = unfinished_tasks - batch.done
           /\ IF rest = <<>>
              THEN /\ bw_batches' = <<>>
                   /\ prioritize_broadcast_messages' = FALSE
                   /\ bw_pc' = "wait"
                   /\ UNCHANGED <<stop_event, stopping, transport_greenlet, broadcast_event>>
              ELSE IF BroadcastRaises(Head(rest).room)
              THEN /\ TransportFails
                   /\ bw_batches' = <<>>
                   /\ UNCHANGED prioritize_broadcast_messages
              ELSE /\ bw_batches' = rest
                   /\ UNCHANGED <<stop_event, stopping, transport_greenlet, bw_pc,
                                  broadcast_event, prioritize_broadcast_messages>>
    /\ UNCHANGED <<raiden_service, starting, presence, broadcast_queue, roomvars,
                   address_to_retrier, rqvars, envvars, callervars, histvars, inbox,
                   last_enqueue, send_async_raised, accepted_before_start, start_log,
                   broadcast_joins>>

\* send_text of the batch in flight raises
BroadcastSendRaises ==
    /\ transport_greenlet = "running"
    /\ bw_pc = "send"
    /\ TransportFails
    /\ bw_batches' = <<>>
    /\ UNCHANGED <<raiden_service, starting, presence, broadcast_queue, unfinished_tasks,
                   prioritize_broadcast_messages, roomvars, address_to_retrier, rqvars,
                   envvars, callervars, histvars, loghist>>

\* Runnable.on_error, the link of a queue's greenlet that died of an exception:
\* it kills the transport's greenlet with the exception, if that is running
OnError(r) ==
    /\ linked[r]
    /\ greenlet[r] = "failed"
    /\ linked' = [linked EXCEPT ![r] = FALSE]
    /\ IF transport_greenlet = "running" /\ bw_pc # "stop"
       THEN /\ TransportFails
            /\ bw_batches' = <<>>
       ELSE UNCHANGED <<stop_event, broadcast_event, stopping, transport_greenlet, bw_pc,
                        bw_batches>>
    /\ UNCHANGED <<raiden_service, starting, presence, broadcast_queue, unfinished_tasks,
                   prioritize_broadcast_messages, roomvars, address_to_retrier, receiver,
                   message_queue, notify_event, lock, idle_since, greenlet, pc, sending,
                   envvars, callervars, histvars, loghist>>

\* ----------------------------------------------------------- specifications
\* The inputs: the channel partner p1, which has the lower address and so
\* creates the room and invites us, its queue of the application, and what the
\* homeserver delivers from it.
Partner == "p1"
ChannelQueue == QueueIdentifier(Partner, "q1")
PartnerInvite(private_room) ==
    [room_id |-> "priv1", sender |-> UserOf(Partner), invite_event |-> TRUE,
     join_event |-> TRUE, private_room |-> private_room]
PartnerText ==
    [room |-> "priv1", valid_type |-> TRUE, sender |-> UserOf(Partner),
     body |-> <<[ok |-> TRUE, type |-> "Retrieable", id |-> 1, sender |-> Partner]>>]
Announcement == [type |-> "PFSCapacityUpdate", id |-> 1]

\* the greenlet of queue r runs until it blocks or ends
Worker(r) ==
    \/ RetrierStart(r)
    \/ RetrierNotified(r)
    \/ RetrierTimeout(r)
    \/ RetrierSent(r)

\* the application sends: the send event is in its queue when send_async is called
Sends(ids) ==
    \/ \E id \in ids : AppQueuePut(ChannelQueue, id)
    \/ \E id \in ids : IsQueued(ChannelQueue, id) /\ SendAsync(ChannelQueue, Retrieable(id))
    \/ SendAsyncResumes

\* the partner's presence as the address manager reports it
Presence ==
    \/ \E status \in {"REACHABLE", "UNREACHABLE"} :
          AddressReachabilityChanged(Partner, status)
    \/ ReachabilityNotifyResumes

\* A started node that sends two messages of one channel to its partner.
Next ==
    \/ StartBegin
    \/ StartFinish
    \/ Whitelist(Partner)
    \/ HandleInvite(PartnerInvite(TRUE))
    \/ Presence
    \/ Sends(MessageIds)
    \/ \E r \in RetrierIds : Worker(r)
    \/ Tick

Spec == Init /\ [][Next]_vars

\* the application starts the transport once
StartOnce == transport_greenlet = "new" /\ StartBegin

\* A node that acknowledges what its partner sends, over a room whose join rule
\* the partner's invites set and a connection on which a request can fail.
NextSend ==
    \/ StartOnce
    \/ StartFinish
    \/ ProcessQueuedInvites
    \/ Whitelist(Partner)
    \/ \E private_room \in BOOLEAN : HandleInvite(PartnerInvite(private_room))
    \/ Presence
    \/ SyncMessages(<<PartnerText>>)
    \/ SyncMessagesResumes
    \/ \E r \in RetrierIds : Worker(r) \/ RetrierSendRaises(r) \/ OnError(r)
    \/ StopNotify
    \/ StopFinish

SpecSend == Init /\ [][NextSend]_vars

\* The life of the queues of one partner: the application sends before and
\* after it starts the transport, its queue gets empty again, and it stops the
\* transport.  The partner has no room, so no request is in flight.
NextLife ==
    \/ StartOnce
    \/ StartFinish
    \/ StopBegin
    \/ StopNotify
    \/ StopFinish
    \/ BroadcastWorker
    \/ Whitelist(Partner)
    \/ AddressReachabilityChanged(Partner, "REACHABLE")
    \/ AppQueuePut(ChannelQueue, 1)
    \/ IsQueued(ChannelQueue, 1) /\ SendAsync(ChannelQueue, Retrieable(1))
    \/ AppQueueRemove(ChannelQueue, 1)
    \/ \E r \in RetrierIds :
          RetrierStart(r) \/ RetrierNotified(r) \/ RetrierTimeout(r) \/ OnError(r)

SpecLife == Init /\ [][NextLife]_vars

\* What the homeserver delivers from the partner's room: a line of a text is a
\* message the partner signed, one that does not parse, or one signed by p2.
Line(ok, type, id, signer) == [ok |-> ok, type |-> type, id |-> id, sender |-> signer]
TextFrom(user, valid_type, body) ==
    [room |-> "priv1", valid_type |-> valid_type, sender |-> user, body |-> body]
InboundBatches ==
    {<<PartnerText>>,
     <<TextFrom(UserOf(Partner), TRUE,
                <<Line(TRUE, "Processed", 2, Partner), Line(TRUE, "Delivered", 1, Partner),
                  Line(FALSE, "Retrieable", 1, Partner)>>)>>,
     <<TextFrom(UserOf(Partner), FALSE, <<Line(TRUE, "Retrieable", 1, Partner)>>),
       TextFrom(SelfUser, TRUE, <<Line(TRUE, "Retrieable", 1, Partner)>>),
       TextFrom(UserOf(Partner), TRUE, <<Line(TRUE, "Retrieable", 2, "p2")>>)>>}

\* A node that receives sync batches from its partner's room while its queue
\* for the partner sends the acknowledgements.
NextInbound ==
    \/ StartOnce
    \/ StartFinish
    \/ ProcessQueuedInvites
    \/ Whitelist(Partner)
    \/ HandleInvite(PartnerInvite(TRUE))
    \/ AddressReachabilityChanged(Partner, "REACHABLE")
    \/ \E sync_messages \in InboundBatches : SyncMessages(sync_messages)
    \/ SyncMessagesResumes
    \/ \E r \in RetrierIds : Worker(r)
    \/ StopBegin

SpecInbound == Init /\ [][NextInbound]_vars

\* the partner invites us to a room, with the join rule "invite"
InviteTo(room) == [PartnerInvite(TRUE) EXCEPT !.room_id = room]

\* A node with a partner that invites it to its private room and to the
\* broadcast rooms, while the application sends to the partner and broadcasts.
NextRooms ==
    \/ StartOnce
    \/ StartFinish
    \/ ProcessQueuedInvites
    \/ Whitelist(Partner)
    \/ \E room \in {"priv1", "balias", "bcanon"} : HandleInvite(InviteTo(room))
    \/ AddressReachabilityChanged(Partner, "REACHABLE")
    \/ ReachabilityNotifyResumes
    \/ Sends({1})
    \/ \E r \in RetrierIds : Worker(r) \/ RetrierJoined(r)
    \/ \E room \in broadcast_rooms : Broadcast(room, Announcement)
    \/ BroadcastWorker
    \/ BroadcastSent

SpecRooms == Init /\ [][NextRooms]_vars

\* a peer that has created the room for us invites us to it
PeerInvites(peer) ==
    /\ [creator |-> peer, partner |-> "self"] \in create_room_calls
    /\ HandleInvite([room_id |-> PrivateRoom(peer), sender |-> UserOf(peer),
                     invite_event |-> TRUE, join_event |-> TRUE, private_room |-> TRUE])

\* Our node and its two peers, one with a lower and one with a higher address,
\* each whitelisting the other at any time.
NextCreate ==
    \/ StartOnce
    \/ StartFinish
    \/ StopBegin
    \/ StopFinish
    \/ ProcessQueuedInvites
    \/ \E address \in Peers : Whitelist(address)
    \/ \E address \in Peers : WhitelistConcurrent(address)
    \/ \E address \in Peers : \E partner_users \in {{}, {UserOf(address)}} :
          CreateSearched(address, partner_users)
    \/ \E address \in Peers : CreateRoomReturned(address)
    \/ \E address \in Peers : \E members \in SUBSET {SelfUser, UserOf("p1"), UserOf("p2")} :
          CreatePolled(address, members)
    \/ \E address \in Peers : CreateSlept(address)
    \/ \E peer \in Peers : PeerWhitelist(peer)
    \/ \E peer \in Peers : PeerCreates(peer)
    \/ \E peer \in Peers : PeerJoins(peer)
    \/ \E peer \in Peers : PeerStopsOrStarts(peer)
    \/ \E peer \in Peers : PeerInvites(peer)

SpecCreate == Init /\ [][NextCreate]_vars

\* A started node that sends one message to its partner and retries it until the
\* application removes the send event, or the whole queue.
NextRetry ==
    \/ StartOnce
    \/ StartFinish
    \/ Whitelist(Partner)
    \/ HandleInvite(PartnerInvite(TRUE))
    \/ AddressReachabilityChanged(Partner, "REACHABLE")
    \/ Sends({1})
    \/ AppQueueRemove(ChannelQueue, 1)
    \/ AppQueueDelete(ChannelQueue)
    \/ \E r \in RetrierIds : Worker(r)
    \/ Tick

SpecRetry == Init /\ [][NextRetry]_vars

\* A send_async given a hex string for the recipient, and one given a transport
\* message.
HexQueue == QueueIdentifier("0xp1", "q1")
SendAsyncCalls ==
    {[queue_identifier |-> ChannelQueue, message |-> Retrieable(1)],
     [queue_identifier |-> HexQueue, message |-> Retrieable(1)],
     [queue_identifier |-> QueueIdentifier(Partner, UNORDERED), message |-> DeliveredMsg(1)],
     [queue_identifier |-> ChannelQueue, message |-> [type |-> "Ping", id |-> 2]]}

\* A node whose application calls send_async with good and bad arguments,
\* before and after start.
NextSendAsync ==
    \/ StartOnce
    \/ StartFinish
    \/ Whitelist(Partner)
    \/ HandleInvite(PartnerInvite(TRUE))
    \/ AddressReachabilityChanged(Partner, "REACHABLE")
    \/ AppQueuePut(ChannelQueue, 1)
    \/ \E call \in SendAsyncCalls : SendAsync(call.queue_identifier, call.message)
    \/ SendAsyncResumes
    \/ \E r \in RetrierIds : Worker(r)

SpecSendAsync == Init /\ [][NextSendAsync]_vars

\* An invite of the partner whose state lacks the partner's join event.
InviteWithoutJoin == [PartnerInvite(TRUE) EXCEPT !.join_event = FALSE]

\* A node that gets invites while it starts and afterwards, and is stopped at
\* some time; the invite to the second room comes only during the start.
NextInvites ==
    \/ StartOnce
    \/ StartFinish
    \/ ProcessQueuedInvites
    \/ Whitelist(Partner)
    \/ \E private_room \in BOOLEAN : HandleInvite(PartnerInvite(private_room))
    \/ HandleInvite(InviteWithoutJoin)
    \/ starting /\ HandleInvite(InviteTo("priv2"))
    \/ starting /\ HandleInvite(InviteTo("balias"))
    \/ AddressReachabilityChanged(Partner, "REACHABLE")
    \/ Sends({1})
    \/ \E r \in RetrierIds : Worker(r)
    \/ StopBegin
    \/ StopNotify
    \/ StopFinish

SpecInvites == Init /\ [][NextInvites]_vars

\* A node whose start() may fail at login; the application sends before and
\* after start and stops the transport at some time.
NextStart ==
    \/ StartBegin
    \/ \E error \in {"ValueError", "MatrixHttpLibError"} : StartLoginFails(error)
    \/ StartFinish
    \/ Listening /\ Whitelist(Partner)
    \/ AddressReachabilityChanged(Partner, "REACHABLE")
    \/ AppQueuePut(ChannelQueue, 1)
    \/ IsQueued(ChannelQueue, 1) /\ SendAsync(ChannelQueue, Retrieable(1))
    \/ \E r \in RetrierIds : RetrierStart(r) \/ RetrierNotified(r) \/ RetrierTimeout(r)
    \/ StopBegin
    \/ StopNotify
    \/ StopFinish
    \/ BroadcastWorker

SpecStart == Init /\ [][NextStart]_vars

\* time passes for an entry that was sent once, far enough for its timeouts to
\* reach the ceiling
BackoffTick ==
    /\ now < MaxBackoffTime
    /\ \E r \in RetrierIds : \E i \in DOMAIN message_queue[r] :
          message_queue[r][i].expiration_generator.k > 0
    /\ now' = now + 1
    /\ UNCHANGED <<tvars, bvars, roomvars, address_to_retrier, rqvars, reachability,
                   queueids_to_queues, callervars, histvars, loghist>>

\* A started node with one message for its partner that the application never
\* removes: the queue sends it again and again.
NextBackoff ==
    \/ StartOnce
    \/ StartFinish
    \/ Listening /\ Whitelist(Partner)
    \/ Listening /\ HandleInvite(PartnerInvite(TRUE))
    \/ AddressReachabilityChanged(Partner, "REACHABLE")
    \/ NotStarted /\ AppQueuePut(ChannelQueue, 1)
    \/ /\ address_to_retrier[Partner] = NoRetrier /\ IsQueued(ChannelQueue, 1)
       /\ SendAsync(ChannelQueue, Retrieable(1))
    \/ \E r \in RetrierIds : Worker(r)
    \/ BackoffTick

SpecBackoff == Init /\ [][NextBackoff]_vars

\* ------------------------------------------------------------------ claims
\* the (queue_identifier, message) pairs of a buffer
Pairs(queue) ==
    {[queue_identifier |-> queue[i].queue_identifier, message |-> queue[i].message] :
        i \in DOMAIN queue}

\* no buffer holds a pair twice
C1_NoDuplicates ==
    \A r \in RetrierIds : Cardinality(Pairs(message_queue[r])) = Len(message_queue[r])

\* the enqueue of a pair its buffer holds changes nothing in the buffer
C1_DuplicateLeavesBuffer ==
    \A r \in RetrierIds :
        (last_enqueue'.r = r /\ last_enqueue'.duplicate /\ notify_event'[r])
            => message_queue'[r] = message_queue[r]

\* C1: a buffer never holds two entries with equal (queue_identifier, message),
\* and an enqueue of a pair the buffer already holds leaves the buffer as it was.
C1_EnqueueDeduplicates == []C1_NoDuplicates /\ [][C1_DuplicateLeavesBuffer]_vars

\* C1 happens: the last enqueue was of a pair its buffer already held
C1_DuplicateEnqueued ==
    /\ last_enqueue.duplicate
    /\ message_queue[last_enqueue.r] # <<>>

\* C2 as stated: every _send_raw call of a queue is made while the receiver is
\* REACHABLE.
C2_CallsOnlyWhileReachable ==
    \A r \in RetrierIds :
        send_raw_call[r] # NoCall => send_raw_call[r].status = "REACHABLE"

\* the first call of a pass, and every call that hands a text to a room, is made
\* while the receiver is REACHABLE
C2_FirstCallWhileReachable ==
    \A r \in RetrierIds :
        /\ (send_raw_call[r] # NoCall /\ send_raw_call[r].first)
              => send_raw_call[r].status = "REACHABLE"
        /\ send_raw_call[r].outcome = "in_flight" => send_raw_call[r].status = "REACHABLE"

\* with the receiver not REACHABLE, a queue that is not in the middle of a pass
\* keeps its entries and makes no call
C2_UnreachableKeepsBuffer ==
    \A r \in RetrierIds :
        (/\ Truthy(greenlet[r]) /\ pc[r] # "send"
         /\ reachability[receiver[r]] # "REACHABLE")
            => /\ Len(message_queue'[r]) >= Len(message_queue[r])
               /\ SubSeq(message_queue'[r], 1, Len(message_queue[r])) = message_queue[r]
               /\ send_raw_call'[r] \in {NoCall, send_raw_call[r]}

\* C2, narrowed to what the one test per pass gives: the first _send_raw call of
\* a pass is made while the receiver is REACHABLE, no text is handed to a room
\* while it is not, and while the receiver is not REACHABLE a queue that is not
\* in the middle of a pass loses no entry and makes no call.
C2_ReachabilityTestedPerPass ==
    []C2_FirstCallWhileReachable /\ [][C2_UnreachableKeepsBuffer]_vars

\* C2 happens: a pass of two batches has its first batch in flight
C2_PassSending ==
    \E r \in RetrierIds :
        /\ pc[r] = "send" /\ send_raw_call[r].first
        /\ Len(sending[r]) = 2

\* the entries of a buffer that hold the Delivered for message M as an
\* unordered entry of its sender
DeliveredEntries(queue, M) ==
    {j \in DOMAIN queue :
        /\ queue[j].message = DeliveredMsg(M.id)
        /\ queue[j].queue_identifier = QueueIdentifier(M.sender, UNORDERED)}

\* the messages of an accepted list that are signed and retryable
SignedRetryable(accepted) ==
    SelectSeq(accepted, LAMBDA M : M.type \in {"Retrieable", "Processed"} /\ M.sender \in Peers)

\* the messages acknowledged so far are the first of the signed retryable ones
\* accepted, and all of them once the batch is handled
C3_AckedAreTheRetryable ==
    /\ \E n \in 0..Len(SignedRetryable(inbox.accepted)) :
          inbox.acks = SubSeq(SignedRetryable(inbox.accepted), 1, n)
    /\ inbox.delivered => inbox.acks = SignedRetryable(inbox.accepted)

\* a step of the handling leaves one Delivered per message it acknowledges in
\* the queue of the sender, and a Delivered is new in a buffer only for an
\* accepted signed retryable message of the batch
C3_AckStep ==
    /\ ((\E sync_messages \in InboundBatches : SyncMessages(sync_messages))
          \/ SyncMessagesResumes)
          => \A i \in (IF sync.op = "acks" THEN Len(inbox.acks) + 1 ELSE 1)..Len(inbox'.acks) :
                LET M == inbox'.acks[i]
                    r == address_to_retrier'[M.sender]
                IN  /\ r # NoRetrier /\ receiver'[r] = M.sender
                    /\ Cardinality(DeliveredEntries(message_queue'[r], M)) = 1
    /\ \A r \in RetrierIds : \A j \in DOMAIN message_queue'[r] :
          LET entry == message_queue'[r][j]
          IN  (/\ entry.message.type = "Delivered"
               /\ [queue_identifier |-> entry.queue_identifier,
                    message |-> entry.message] \notin Pairs(message_queue[r]))
                  => \E i \in DOMAIN inbox'.accepted :
                        LET M == inbox'.accepted[i]
                        IN  /\ M.type \in {"Retrieable", "Processed"}
                            /\ M.sender = receiver'[r]
                            /\ j \in DeliveredEntries(message_queue'[r], M)

\* C3: the handling of a sync batch calls enqueue_unordered once for each
\* accepted message that is signed and retryable and for no other; after the
\* call the queue of the sender holds exactly one unordered Delivered with the
\* identifier of the message; and a Delivered enters a buffer only for an
\* accepted signed retryable message of the batch, in the queue of its sender.
C3_DeliveredForAccepted == []C3_AckedAreTheRetryable /\ [][C3_AckStep]_vars

\* C3 happens: a batch with a retryable and a non-retryable accepted message
\* was handled, and the Delivered for the retryable one is in the partner's queue
C3_BatchAcknowledged ==
    /\ inbox.delivered
    /\ Len(inbox.acks) = 1 /\ Len(inbox.accepted) = 2
    /\ address_to_retrier[Partner] # NoRetrier
    /\ DeliveredEntries(message_queue[address_to_retrier[Partner]], inbox.acks[1]) # {}

\* C4: every create_room call for a pair of nodes is issued by the one with
\* the lower address, so never by both; a node with the higher address of a
\* pair never gets past the election in _maybe_create_room_for_address.
C4_OnlyLowerAddressCreates ==
    /\ \A call \in create_room_calls :
          AddressNumber(call.creator) < AddressNumber(call.partner)
    /\ \A c1, c2 \in create_room_calls :
          ~(c1.creator = c2.partner /\ c1.partner = c2.creator)
    /\ \A peer \in Peers :
          /\ creating[peer].pc # "none" => AddressNumber("self") < AddressNumber(peer)
          /\ peer_pc[peer] # "none" => AddressNumber(peer) < AddressNumber("self")

\* C4 happens: the peer with the lower address has created the room, and we,
\* having whitelisted it while we had no room for it, have not
C4_PeerCreatedWeDidNot ==
    /\ [creator |-> "p1", partner |-> "self"] \in create_room_calls
    /\ "p1" \in known_addresses /\ address_to_room_ids["p1"] = <<>>
    /\ [creator |-> "self", partner |-> "p2"] \in create_room_calls
    /\ ~stop_event

\* C5 as stated: a worker that has exited has counted RETRY_QUEUE_IDLE_AFTER
\* empty iterations.
C5_ExitsOnlyWhenIdle ==
    \A r \in RetrierIds :
        greenlet[r] = "finished" => idle_since[r] >= RETRY_QUEUE_IDLE_AFTER

\* a running worker has counted fewer than RETRY_QUEUE_IDLE_AFTER empty iterations
C5_RunningIsNotIdle ==
    \A r \in RetrierIds : greenlet[r] = "running" => idle_since[r] < RETRY_QUEUE_IDLE_AFTER

\* the steps of a live worker: when it ends its loop, when it must, how its
\* counter moves; and the buffer of a dead one stays as it is
C5_ExitStep ==
    \A r \in RetrierIds :
        /\ (Truthy(greenlet[r]) /\ greenlet'[r] = "finished")
              => (stop_event \/ idle_since'[r] = RETRY_QUEUE_IDLE_AFTER)
        /\ (Truthy(greenlet[r]) /\ idle_since'[r] >= RETRY_QUEUE_IDLE_AFTER)
              => greenlet'[r] = "finished"
        /\ (Truthy(greenlet[r]) /\ idle_since'[r] # idle_since[r])
              => idle_since'[r] = IF message_queue[r] = <<>> THEN idle_since[r] + 1 ELSE 0
        /\ (Ready(greenlet[r]) /\ Ready(greenlet'[r]))
              => message_queue'[r] = message_queue[r]

\* what _get_retrier would do for an address whose queue is dead
C5_DeadIsReplaced ==
    \A address \in Peers :
        LET old == address_to_retrier[address]
            new == get_retrier(Retriers, address)
        IN  (old # NoRetrier /\ Ready(greenlet[old]) /\ UnusedIds(Retriers) # {})
                => /\ new # old
                   /\ after_get_retrier(Retriers, address).greenlet[new] = "pending"
                   /\ after_get_retrier(Retriers, address).message_queue[new] = <<>>

\* C5, with the other exit: a running worker has counted fewer than
\* RETRY_QUEUE_IDLE_AFTER empty iterations; a worker ends its loop in the
\* iteration in which the counter reaches RETRY_QUEUE_IDLE_AFTER or at the top of
\* an iteration that finds _stop_event set, and in no other; the counter moves
\* by one up on an empty buffer and to 0 on a non-empty one; the buffer of a
\* queue whose worker is dead is not written, and _get_retrier, finding the
\* queue of the address dead, makes a new one, started and empty.
C5_IdleExit ==
    [](C5_RunningIsNotIdle /\ C5_DeadIsReplaced) /\ [][C5_ExitStep]_vars

\* C5 happens: a worker has exited idle and a later enqueue made a new queue
C5_IdleQueueReplaced ==
    \E r1, r2 \in RetrierIds :
        /\ r1 # r2
        /\ greenlet[r1] = "finished" /\ idle_since[r1] = RETRY_QUEUE_IDLE_AFTER
        /\ address_to_retrier[receiver[r1]] = r2
        /\ Truthy(greenlet[r2]) /\ message_queue[r2] # <<>>

\* the rooms the node uses as broadcast rooms
BroadcastRoomIds == {broadcast_room_of[k] : k \in DOMAIN broadcast_room_of}

\* C6 as stated: no text of a _RetryQueue is posted to a broadcast room, and no
\* message given to broadcast() is in a buffer of a _RetryQueue.
C6_BroadcastIsolation ==
    /\ room_posts \cap BroadcastRoomIds = {}
    /\ \A r \in RetrierIds : \A i \in DOMAIN message_queue[r] :
          message_queue[r][i].message # Announcement

\* C7 as stated for a pass without a usable room: the pass whose _send_raw finds
\* no room has removed no Delivered, Ping or Pong.
C7_NoRoomRemovesNothing ==
    \A r \in RetrierIds :
        send_raw_call[r].outcome = "no_room"
            => \A entry \in removed_in_pass[r] : ~IsTransportMessage(entry.message)

\* at most one queue of an address has a live worker
C8_OneLivePerAddress ==
    \A address \in Peers :
        Cardinality({r \in RetrierIds : receiver[r] = address /\ Truthy(greenlet[r])}) <= 1

\* a new map entry takes the place of none or of a queue whose worker is dead
C8_ReplacedOnlyWhenDead ==
    \A address \in Peers :
        (/\ address_to_retrier'[address] # address_to_retrier[address]
         /\ address_to_retrier'[address] # NoRetrier)
            => \/ address_to_retrier[address] = NoRetrier
               \/ Ready(greenlet[address_to_retrier[address]])

C9_FailedSendKeepsEntries ==
    \A r \in RetrierIds :
        send_raw_call[r].outcome = "raised"
            => removed_in_pass[r] = {} /\ Truthy(greenlet[r])

\* the texts of the batches, in order
RECURSIVE Flatten(_)
Flatten(batches) == IF batches = <<>> THEN <<>> ELSE Head(batches) \o Flatten(Tail(batches))

\* C10: of two entries of one queue_identifier the earlier one is handed to
\* _send_raw first (the later one has not been collected while the earlier one
\* has not), and the texts a pass hands to _send_raw are in the order of the
\* buffer.
C10_SentInEnqueueOrder ==
    \A r \in RetrierIds :
        LET queue == message_queue[r]
            texts == Flatten(sending[r])
        IN  /\ \A i, j \in DOMAIN queue :
                  (/\ i < j
                   /\ queue[i].queue_identifier = queue[j].queue_identifier
                   /\ queue[j].expiration_generator.k > 0)
                      => queue[i].expiration_generator.k > 0
            /\ \A a, b \in DOMAIN texts : \A i, j \in DOMAIN queue :
                  (/\ a < b
                   /\ queue[i].text = texts[a] /\ queue[j].text = texts[b]
                   /\ queue[i].queue_identifier = queue[j].queue_identifier)
                      => i < j

\* C10 happens: a pass hands over both messages of the channel
C10_BothSent ==
    \E r \in RetrierIds :
        /\ pc[r] = "send"
        /\ Flatten(sending[r]) = <<Serialize(Retrieable(1)), Serialize(Retrieable(2))>>
        /\ Len(message_queue[r]) = 2

\* the handling is suspended in an enqueue_unordered: the application has not
\* been given the batch, and the message it waits for is not acknowledged yet
C11_SuspendedIsNotNotified ==
    sync.op = "acks" =>
        /\ ~inbox.delivered
        /\ Len(inbox.acks) < Len(SignedRetryable(inbox.accepted))

\* a step that hands a batch to on_messages: every message of it that needs an
\* acknowledgement is acknowledged by then, the ones this step acknowledges
\* being in the buffer of their sender's queue
C11_NotifyStep ==
    (inbox'.delivered /\ inbox' # inbox) =>
        /\ inbox'.acks = SignedRetryable(inbox'.accepted)
        /\ \A i \in (IF sync.op = "acks" THEN Len(inbox.acks) + 1 ELSE 1)..Len(inbox'.acks) :
              LET M == inbox'.acks[i]
              IN  /\ address_to_retrier'[M.sender] # NoRetrier
                  /\ DeliveredEntries(message_queue'[address_to_retrier'[M.sender]], M) # {}

\* C11: within the handling of a sync batch, on_messages is called with the
\* accepted messages only after the Delivered of every accepted message that
\* needs one has been enqueued in the queue of its sender; while the handling
\* waits for a queue's lock the application has not been notified.
C11_DeliveredBeforeOnMessages ==
    []C11_SuspendedIsNotNotified /\ [][C11_NotifyStep]_vars

\* C11 happens: the partner's text was handed to on_messages and the Delivered
\* of its message is in the buffer of the partner's queue
C11_NotifiedAfterAck ==
    /\ inbox.delivered /\ sync = Idle
    /\ Len(inbox.batch) = 1 /\ Len(inbox.batch[1].body) = 1
    /\ inbox.batch[1].body[1].type = "Retrieable" /\ inbox.batch[1].body[1].ok
    /\ Len(inbox.accepted) = 1 /\ inbox.acks = inbox.accepted
    /\ address_to_retrier[Partner] # NoRetrier
    /\ DeliveredEntries(message_queue[address_to_retrier[Partner]], inbox.accepted[1]) # {}

\* the worker of queue r starts an iteration of its loop
LoopTick(r) == RetrierStart(r) \/ RetrierNotified(r) \/ RetrierTimeout(r)

\* an iteration of queue r whose pass finds the peer not REACHABLE: nothing is
\* handed to _send_raw and no entry or expiration generator changes
C12_OfflineTickSendsNothing ==
    \A r \in RetrierIds :
        (LoopTick(r) /\ reachability[receiver[r]] # "REACHABLE")
            => /\ message_queue'[r] = message_queue[r]
               /\ sending'[r] = <<>>
               /\ send_raw_call'[r] = NoCall
               /\ pc'[r] # "send"

\* _address_reachability_changed(address, REACHABLE) notifies the live queue of
\* the address (the notify waits while the worker holds the lock)
C12_OnlineNotifies ==
    \A address \in Peers :
        LET r == address_to_retrier[address]
        IN  (/\ AddressReachabilityChanged(address, "REACHABLE")
             /\ r # NoRetrier /\ Truthy(greenlet[r]))
                => \/ notify_event'[r]
                   \/ sync' = [op |-> "notify", r |-> r]

\* the texts due in a pass of queue r: of the transport messages, and of the
\* entries never collected before that the application's queue still lists
DueTexts(r) ==
    {message_queue[r][i].text : i \in
        {j \in DOMAIN message_queue[r] :
            \/ message_queue[r][j].message.type \in {"Delivered", "Ping", "Pong"}
            \/ /\ message_queue[r][j].expiration_generator = FreshGenerator
               /\ IsQueued(message_queue[r][j].queue_identifier,
                           message_queue[r][j].message.id)}}

\* an iteration of a running transport that finds the buffer not empty and the
\* peer REACHABLE hands every due text to _send_raw
C12_OnlineTickSendsPending ==
    \A r \in RetrierIds :
        (/\ LoopTick(r)
         /\ raiden_service /\ ~stop_event /\ Truthy(transport_greenlet)
         /\ ~(prioritize_broadcast_messages /\ unfinished_tasks > 0)
         /\ reachability[receiver[r]] = "REACHABLE"
         /\ DueTexts(r) # {})
            => /\ send_raw_call'[r].first
               /\ send_raw_call'[r].outcome \in {"in_flight", "no_room"}
               /\ send_raw_call'[r].outcome = "in_flight"
                     => DueTexts(r) \subseteq TextsOfAll(sending'[r])

\* C12: while the peer is not REACHABLE an iteration of its queue sends nothing
\* and leaves every entry and its expiration generator as they were; the change
\* to REACHABLE notifies the queue; and the next pass that finds the peer
\* REACHABLE hands to _send_raw the text of every entry that was never
\* collected and that the application's queue still lists.
C12_OfflineThenSent ==
    [][C12_OfflineTickSendsNothing /\ C12_OnlineNotifies /\ C12_OnlineTickSendsPending]_vars

\* C12 happens: the last message was enqueued while the partner was not
\* REACHABLE, and now, the partner REACHABLE, its text is in flight
C12_SentOnceOnline ==
    \E r \in RetrierIds :
        /\ last_enqueue.r = r /\ ~last_enqueue.reachable /\ ~last_enqueue.duplicate
        /\ reachability[receiver[r]] = "REACHABLE"
        /\ pc[r] = "send" /\ send_raw_call[r].first
        /\ message_queue[r] # <<>>
        /\ message_queue[r][Len(message_queue[r])].message.type = "Retrieable"
        /\ message_queue[r][Len(message_queue[r])].text \in TextsOfAll(sending[r])
        /\ message_queue[r][Len(message_queue[r])].expiration_generator.k = 1

\* the non-retryable entries of a buffer, as (queue_identifier, message) pairs
OnceOnly(queue) ==
    {pair \in Pairs(queue) : pair.message.type \in {"Delivered", "Ping", "Pong"}}

\* queue r gets through to the loop of _check_and_send in this step: the
\* transport is started and running, the broadcast queue does not hold it
\* back, and the peer is REACHABLE
PassRuns(r) ==
    /\ LoopTick(r) \/ RetrierJoined(r)
    /\ raiden_service /\ ~stop_event /\ Truthy(transport_greenlet)
    /\ message_queue[r] # <<>>
    /\ ~(prioritize_broadcast_messages /\ unfinished_tasks > 0)
    /\ reachability[receiver[r]] = "REACHABLE"

\* the id of a dead queue that nothing refers to is taken for a new queue
Remade(r) == r \in UnusedIds(Retriers) /\ greenlet'[r] = "pending"

\* a pass collects every non-retryable entry of the buffer and removes it; a
\* step that is no pass removes none; and a non-retryable text is handed to
\* _send_raw only in the pass that removes its entry
C13_CollectedInTheRemovingPass ==
    \A r \in RetrierIds :
        /\ PassRuns(r) =>
              /\ OnceOnly(message_queue'[r]) = {}
              /\ OnceOnly(message_queue[r]) \subseteq removed_in_pass'[r]
              /\ OnceOnly(message_queue[r]) # {} =>
                    /\ send_raw_call'[r].first
                    /\ send_raw_call'[r].outcome = "in_flight" =>
                          {Serialize(pair.message) : pair \in OnceOnly(message_queue[r])}
                              \subseteq TextsOfAll(sending'[r])
        /\ ~PassRuns(r) /\ ~Remade(r)
              => OnceOnly(message_queue[r]) \subseteq OnceOnly(message_queue'[r])
        /\ \A text \in TextsOfAll(sending'[r]) \ TextsOfAll(sending[r]) :
              text[2] \in {"Delivered", "Ping", "Pong"} =>
                  /\ PassRuns(r)
                  /\ \E pair \in OnceOnly(message_queue[r]) : Serialize(pair.message) = text

\* while the texts of a pass are in flight the buffer holds no non-retryable
\* entry that a later pass could collect again
C13_NoneLeftWhileSending ==
    \A r \in RetrierIds : pc[r] = "send" => OnceOnly(message_queue[r]) = {}

\* C13: a non-retryable entry (Delivered, Ping, Pong) is collected in the first
\* pass that gets to the loop of _check_and_send (transport started and
\* running, peer REACHABLE) and removed from the buffer in that pass; no other
\* step removes it, and its text is in the batches of no other pass.
C13_TransportMessageOnce ==
    []C13_NoneLeftWhileSending /\ [][C13_CollectedInTheRemovingPass]_vars

\* C13 happens: a pass removed a Delivered from the buffer and its text is in
\* flight
C13_DeliveredInFlight ==
    \E r \in RetrierIds :
        /\ pc[r] = "send"
        /\ removed_in_pass[r] # {}
        /\ \A pair \in removed_in_pass[r] : pair.message.type = "Delivered"
        /\ \E pair \in removed_in_pass[r] : Serialize(pair.message) \in TextsOfAll(sending[r])
        /\ message_queue[r] = <<>>

\* the retryable entries of a buffer
Retryables(queue) == {j \in DOMAIN queue : queue[j].message.type = "Retrieable"}

\* next() on the expiration generator of an entry would yield True now: it
\* was never taken, or the timeout it started has passed
ClockReady(message_data) ==
    \/ message_data.expiration_generator.k = 0
    \/ now >= message_data.expiration_generator.next

\* a pass keeps each retryable entry the application still lists, and hands
\* its text to _send_raw if its clock is ready; it removes each one the
\* application no longer lists, and does not hand its text on
C14_PassKeepsWhatIsListed ==
    \A r \in RetrierIds : PassRuns(r) =>
        \A j \in Retryables(message_queue[r]) :
            LET entry == message_queue[r][j]
                pair == [queue_identifier |-> entry.queue_identifier,
                         message |-> entry.message]
                handed == send_raw_call'[r].first
                          /\ \/ /\ send_raw_call'[r].outcome = "in_flight"
                                /\ entry.text \in TextsOfAll(sending'[r])
                             \/ send_raw_call'[r].outcome = "no_room"
            IN  IF IsQueued(entry.queue_identifier, entry.message.id)
                THEN /\ pair \in Pairs(message_queue'[r])
                     /\ pair \notin removed_in_pass'[r]
                     /\ ClockReady(entry) => handed
                ELSE /\ pair \notin Pairs(message_queue'[r])
                     /\ pair \in removed_in_pass'[r]
                     /\ entry.text \notin TextsOfAll(sending'[r])

\* no other step takes a retryable entry out of a buffer, and a retryable
\* text is new among the texts in flight only for an entry of the buffer that
\* the application lists
C14_OnlyAPassRemoves ==
    \A r \in RetrierIds :
        /\ ~PassRuns(r) =>
              \A j \in Retryables(message_queue[r]) :
                  [queue_identifier |-> message_queue[r][j].queue_identifier,
                   message |-> message_queue[r][j].message] \in Pairs(message_queue'[r])
        /\ \A text \in TextsOfAll(sending'[r]) \ TextsOfAll(sending[r]) :
              text[2] = "Retrieable" =>
                  \E j \in Retryables(message_queue[r]) :
                      /\ message_queue[r][j].text = text
                      /\ IsQueued(message_queue[r][j].queue_identifier,
                                  message_queue[r][j].message.id)

\* C14: a retryable entry stays in the buffer, and is handed to _send_raw in
\* every pass that finds its expiration clock ready, as long as the
\* application's queue of its queue_identifier lists its message_identifier;
\* the first pass that finds it no longer listed (or the queue gone) removes
\* it without sending it, and it is not sent afterwards.
C14_RetriedWhileListed == [][C14_PassKeepsWhatIsListed /\ C14_OnlyAPassRemoves]_vars

\* C14 happens: the message is sent for the second time, its first timeout
\* having passed, and the application still lists it
C14_Resent ==
    \E r \in RetrierIds :
        /\ pc[r] = "send"
        /\ Len(message_queue[r]) = 1
        /\ message_queue[r][1].expiration_generator.k = 2
        /\ message_queue[r][1].text \in TextsOfAll(sending[r])
        /\ IsQueued(ChannelQueue, 1)
        /\ now = 1

\* a send_async call whose recipient is not a binary address or whose message
\* is a Delivered, Ping or Pong raises ValueError and leaves the map of queues
\* and every queue as they were
C15_BadCallRaises ==
    \A call \in SendAsyncCalls :
        (/\ SendAsync(call.queue_identifier, call.message)
         /\ \/ call.queue_identifier.recipient \notin Peers \cup {"self"}
            \/ call.message.type \in {"Delivered", "Ping", "Pong"})
            => /\ [queue_identifier |-> call.queue_identifier, message |-> call.message,
                   error |-> "ValueError"] \in send_async_raised'
               /\ UNCHANGED <<address_to_retrier, rqvars, sender>>

\* no queue is made for a value that is not a binary address, and no buffer
\* holds a transport message under the identifier of a channel
C15_NothingQueuedForBadCall ==
    /\ \A r \in RetrierIds : receiver[r] \in Peers \cup {"none"}
    /\ \A r \in RetrierIds : \A j \in DOMAIN message_queue[r] :
          message_queue[r][j].message.type \in {"Delivered", "Ping", "Pong"}
              => message_queue[r][j].queue_identifier.canonical_identifier = UNORDERED
    /\ \A r \in RetrierIds : \A j \in DOMAIN message_queue[r] :
          message_queue[r][j].message # DeliveredMsg(1)

\* C15: send_async raises ValueError for a recipient that is not a binary
\* address and for a Delivered, Ping or Pong; such a call neither looks up nor
\* creates a RetryQueue and changes no buffer.
C15_SendAsyncValueError == []C15_NothingQueuedForBadCall /\ [][C15_BadCallRaises]_vars

\* C15 happens: both kinds of bad call have raised while the partner's queue
\* holds the message of a good call
C15_BothRaised ==
    /\ \E e \in send_async_raised : e.queue_identifier = HexQueue /\ e.message = Retrieable(1)
    /\ \E e \in send_async_raised :
          e.queue_identifier.recipient = Partner /\ e.message.type = "Delivered"
    /\ address_to_retrier[Partner] # NoRetrier
    /\ message_queue[address_to_retrier[Partner]] # <<>>

\* the queued invites _handle_invite would join for: our invite event and
\* the sender's join event are in the state, and the sender's signature is valid
ValidInvites(queue) ==
    {queue[i] : i \in {j \in DOMAIN queue :
        /\ queue[j].invite_event /\ queue[j].join_event
        /\ queue[j].sender \in {UserOf(p) : p \in Peers}}}

\* C16 as stated: the deferred processor joins the room of every valid queued
\* invite before it clears the queue.
C16_ProcessorJoinsAll ==
    [][ProcessQueuedInvites =>
          \A invite \in ValidInvites(invite_queue) : invite.room_id \in client_rooms']_vars

\* an invite that arrives while _starting is set is appended to the queue and
\* nothing is joined
C16_ParkedWhileStarting ==
    \A invite \in {PartnerInvite(TRUE), PartnerInvite(FALSE), InviteWithoutJoin,
                   InviteTo("priv2"), InviteTo("balias")} :
        (HandleInvite(invite) /\ starting)
            => /\ invite_queue' = Append(invite_queue, invite)
               /\ UNCHANGED <<client_rooms, invite_only, address_to_room_ids>>

\* the deferred processor of a transport that is not stopped joins the room of
\* every valid queued invite, and registers it for the sender unless it is a
\* broadcast room; the processor of a stopped one joins nothing; both clear
\* the queue, and nothing else takes an invite out of it
C16_ProcessedUnlessStopped ==
    /\ ProcessQueuedInvites =>
          /\ invite_queue' = <<>>
          /\ IF stop_event
             THEN UNCHANGED <<client_rooms, invite_only, address_to_room_ids>>
             ELSE \A invite \in ValidInvites(invite_queue) :
                     /\ invite.room_id \in client_rooms'
                     /\ ~is_broadcast_room(invite.room_id) =>
                           \E i \in DOMAIN address_to_room_ids'[invite.sender[2]] :
                               address_to_room_ids'[invite.sender[2]][i] = invite.room_id
    /\ Len(invite_queue') < Len(invite_queue) => ProcessQueuedInvites

\* a queued invite has a processor to come: the start is in progress, or the
\* greenlet of the processor is scheduled
C16_QueuedHasProcessor == invite_queue # <<>> => starting \/ deferred_invites

\* what holds of C16: an invite received while the transport is starting is
\* appended to the invite queue and not joined then; the processor scheduled by
\* start() finds every such invite in the queue, and, if the transport has not
\* been stopped by then, joins the room of each valid one before it clears the
\* queue.
C16_InvitesParkedThenJoined ==
    /\ []C16_QueuedHasProcessor
    /\ [][C16_ParkedWhileStarting /\ C16_ProcessedUnlessStopped]_vars

\* the room of the invite that came during the start was joined
\* by the processor, and the queue is empty
C16_ParkedInviteJoined ==
    /\ "priv2" \in client_rooms
    /\ address_to_room_ids[Partner] # <<>> /\ Head(address_to_room_ids[Partner]) = "priv2"
    /\ invite_queue = <<>>
    /\ ~deferred_invites /\ ~starting /\ ~stop_event

\* the positions of a step in the log of a start() call
StepAt(step) == {i \in DOMAIN start_log : start_log[i] = step}

\* C17 as stated: the UserAddressManager is started only after login() has
\* returned, and not at all in a start() whose login() failed.
C17_LoginBeforeAddressManager ==
    \A i \in StepAt("address_mgr.start") : \E j \in StepAt("login") : j < i

\* start() starts the UserAddressManager first and calls login() next; a
\* start() whose login() failed has done nothing after it
C17_StartLogShape ==
    /\ start_log # <<>> => start_log[1] = "address_mgr.start"
    /\ StepAt("address_mgr.start") \subseteq {1}
    /\ StepAt("login") \subseteq {2}
    /\ \A i \in DOMAIN start_log :
          start_log[i] \in {"address_mgr.start", "RaidenUnrecoverableError"}
                           \cup {StartSteps[k] : k \in DOMAIN StartSteps}
    /\ StepAt("RaidenUnrecoverableError") # {}
          => start_log = <<"address_mgr.start", "RaidenUnrecoverableError">>

\* the step in which login() fails ends start() and leaves what start() had
\* set: _stop_event cleared, _starting set, the transport's greenlet not
\* started, presence as it was
C17_FailureLeavesStartHalfDone ==
    (\E error \in {"ValueError", "MatrixHttpLibError"} : StartLoginFails(error))
        => /\ ~stop_event' /\ starting' /\ main' = Idle
           /\ ~Truthy(transport_greenlet')
           /\ presence' = presence /\ presence' = "offline"
           /\ start_log' = <<"address_mgr.start", "RaidenUnrecoverableError">>

\* C17: start() starts the UserAddressManager and then authenticates; when
\* the authentication fails, start() aborts with RaidenUnrecoverableError,
\* the UserAddressManager has been started and is left so, and no later step
\* of the start has been taken.
C17_AddressManagerThenLogin == []C17_StartLogShape /\ [][C17_FailureLeavesStartHalfDone]_vars

\* C17 happens: a start() has failed at login, the UserAddressManager started
C17_LoginFailed ==
    /\ start_log = <<"address_mgr.start", "RaidenUnrecoverableError">>
    /\ main = Idle /\ starting /\ ~stop_event

\* the steps of start() that C18 lists, in the order it lists them
C18_Order ==
    <<"first_sync", "room_inventory", "broadcast_rooms", "sync_filter", "listener",
      "presence_online", "restart_retriers", "whitelist", "schedule_invites">>

\* each listed step was taken once, and after the steps listed before it
C18_AllInOrder ==
    /\ \A k \in DOMAIN C18_Order : Cardinality(StepAt(C18_Order[k])) = 1
    /\ \A k, l \in DOMAIN C18_Order :
          k < l => \A i \in StepAt(C18_Order[k]) : \A j \in StepAt(C18_Order[l]) : i < j

\* a start() that returned without an error has taken the listed steps in the
\* listed order, and so has the start() of a node that is listening
C18_FinishedStartInOrder ==
    /\ (main = Idle /\ start_log # <<>> /\ StepAt("RaidenUnrecoverableError") = {})
          => C18_AllInOrder
    /\ (Listening \/ sync # Idle) => C18_AllInOrder

\* the workers of the client are started after the inventory, whenever started
C18_ListenerAfterInventory ==
    \A i \in StepAt("listener") : \E j \in StepAt("room_inventory") : j < i

\* a callback of the sync worker runs only in a node whose start() has made the
\* inventory of the rooms
C18_CallbackAfterInventory ==
    AddressReachabilityChanged(Partner, "REACHABLE")
        => StepAt("room_inventory") # {} /\ C18_AllInOrder

\* C18: start() takes its steps from the first sync to the scheduling of the
\* deferred invite processing in the order listed, and the sync and
\* message-dispatch workers neither start nor run a callback before the room
\* inventory is made.
C18_StartStepsInOrder ==
    /\ [](C18_FinishedStartInOrder /\ C18_ListenerAfterInventory)
    /\ [][C18_CallbackAfterInventory]_vars

\* C18 happens: start() has returned, and the sync worker has reported the
\* partner's presence since
C18_StartedAndListening ==
    /\ main = Idle /\ Listening
    /\ start_log = StartHead \o StartSteps
    /\ reachability[Partner] = "REACHABLE"

\* the application calls stop().  A queue's greenlet that start() restarted was
\* started just before the transport's greenlet, and the hub runs the two in
\* that order: no other greenlet runs between a queue's first run and the
\* first run of the broadcast worker.
StopCalled ==
    /\ ~(bw_pc = "start" /\ \E r \in RetrierIds : pc[r] = "join")
    /\ StopBegin

\* A node with a message for its partner and an announcement that were handed
\* over before start(); it is stopped at some time, while requests to the
\* homeserver may be in flight and may fail.
NextStop ==
    \/ StartOnce
    \/ StartFinish
    \/ Whitelist(Partner)
    \/ HandleInvite(PartnerInvite(TRUE))
    \/ AddressReachabilityChanged(Partner, "REACHABLE")
    \/ ReachabilityNotifyResumes
    \/ Sends({1})
    \/ transport_greenlet = "new" /\ Broadcast("discovery", Announcement)
    \/ \E r \in RetrierIds : Worker(r) \/ RetrierJoined(r) \/ RetrierSendRaises(r)
    \/ BroadcastWorker
    \/ BroadcastSent
    \/ BroadcastSendRaises
    \/ StopCalled
    \/ StopNotify
    \/ StopFinish

\* gevent runs every greenlet that can run, and a request to the homeserver
\* returns or raises.  stop() waits for the greenlets of the queues that are in
\* the map when it starts to wait, so it goes on once these have ended, also
\* when queues are created again and again in the meantime.
FairStop ==
    /\ \A r \in RetrierIds :
          /\ WF_vars(RetrierStart(r))
          /\ WF_vars(RetrierNotified(r))
          /\ WF_vars(RetrierTimeout(r))
          /\ WF_vars(RetrierJoined(r))
          /\ WF_vars(RetrierSent(r) \/ RetrierSendRaises(r))
    /\ WF_vars(BroadcastWorker)
    /\ WF_vars(BroadcastSent \/ BroadcastSendRaises)
    /\ WF_vars(SendAsyncResumes)
    /\ WF_vars(ReachabilityNotifyResumes)
    /\ WF_vars(StopNotify)
    /\ SF_vars(StopFinish)

SpecStop == Init /\ [][NextStop]_vars /\ FairStop

\* stop(), called by the application, is past its test of _stop_event
StopRunning == stopping # Idle /\ stopping.by = "main"

\* stop() has returned: the map is empty, presence is OFFLINE
StopReturned ==
    /\ stopping = Idle
    /\ \A a \in Peers : address_to_retrier[a] = NoRetrier
    /\ presence = "offline"

\* C19: a stop() the application called on a started transport returns in the
\* end, whatever the other greenlets do meanwhile, with every queue's greenlet
\* ended, the map of the queues empty and presence OFFLINE.
C19_StopReturns == StopRunning ~> StopReturned

\* what holds of C19: stop() returns, with the map empty and presence
\* OFFLINE, unless a request of the broadcast worker failed and ended the
\* transport's greenlet
C19_StopReturnsUnlessBroadcastFailed ==
    StopRunning ~> (StopReturned \/ transport_greenlet = "failed")

\* stop() is called while a queue's greenlet waits, with its lock, for the
\* broadcast queue to drain
C19_StopWhileJoining ==
    /\ StopRunning
    /\ \E r \in RetrierIds : pc[r] = "join" /\ lock[r] /\ r \in stopping.todo

\* the queue of the map for the recipient holds the message
HeldForRecipient(e) ==
    LET r == address_to_retrier[e.queue_identifier.recipient]
    IN  /\ r # NoRetrier
        /\ \E i \in DOMAIN message_queue[r] :
              /\ message_queue[r][i].queue_identifier = e.queue_identifier
              /\ message_queue[r][i].message = e.message

\* C20 as stated: a message send_async took before start() stays buffered for
\* its recipient, in the queue start() restarts and that sends it once the
\* peer is REACHABLE, as long as the application's queue lists it.
C20_BufferedUntilSent ==
    \A e \in accepted_before_start :
        IsQueued(e.queue_identifier, e.message.id) => HeldForRecipient(e)

\* nothing is handed to a room before start() has started the transport
C20_NothingSentBeforeStart ==
    transport_greenlet = "new"
        => /\ room_posts = {}
           /\ \A r \in RetrierIds : send_raw_call[r] = NoCall /\ pc[r] # "send"

\* start() leaves every queue of the map with a greenlet that runs or will run
C20_StartRestarts ==
    StartFinish
        => \A a \in Peers :
              address_to_retrier'[a] # NoRetrier => Truthy(greenlet'[address_to_retrier'[a]])

\* what holds of C20: nothing is sent before start, start() restarts the queues
\* of the map, and a pass of a queue of the started transport whose receiver is
\* REACHABLE hands every due text it holds to _send_raw
C20_BufferedThenSentByItsQueue ==
    /\ []C20_NothingSentBeforeStart
    /\ [][C20_StartRestarts]_vars
    /\ [][C12_OnlineTickSendsPending]_vars

\* a message taken before start() was sent after it
C20_SentAfterStart ==
    \E e \in accepted_before_start : \E r \in RetrierIds :
        /\ HeldForRecipient(e) /\ address_to_retrier[e.queue_identifier.recipient] = r
        /\ send_raw_call[r] # NoCall /\ send_raw_call[r].outcome = "posted"

\* the k-th minimum gap as C21 gives it: retry_interval for the first
\* retries_before_backoff gaps, then doubled at each gap, at most 10 times
\* retry_interval
RECURSIVE TwoToThe(_)
TwoToThe(n) == IF n = 0 THEN 1 ELSE 2 * TwoToThe(n - 1)
BackoffGap(k) ==
    IF k <= retries_before_backoff THEN retry_interval
    ELSE IF /\ k - retries_before_backoff < 4
            /\ retry_interval * TwoToThe(k - retries_before_backoff) < 10 * retry_interval
    THEN retry_interval * TwoToThe(k - retries_before_backoff)
    ELSE 10 * retry_interval

\* the entries of a buffer with the state of their generators
Generators(queue) ==
    {[queue_identifier |-> queue[i].queue_identifier, message |-> queue[i].message,
      gen |-> queue[i].expiration_generator] : i \in DOMAIN queue}

\* the deadline an entry's generator holds after its k-th send is the time of
\* that send plus the k-th gap, so the next send is no sooner
C21_DeadlineIsSendPlusGap ==
    \A r \in RetrierIds : \A old \in Generators(message_queue[r]) :
        \A new \in Generators(message_queue'[r]) :
            (/\ old.queue_identifier = new.queue_identifier /\ old.message = new.message
             /\ ~Remade(r)
             /\ new.gen # old.gen)
                => /\ new.gen.k = old.gen.k + 1
                   /\ new.gen.next = now + BackoffGap(new.gen.k)
                   /\ old.gen.k > 0 => now >= old.gen.next
                   /\ Serialize(new.message) \in TextsOfAll(sending'[r])
                         \/ send_raw_call'[r].outcome = "no_room"

\* the gaps never shrink and never exceed 10 times retry_interval
C21_GapsGrowToCeiling ==
    \A k \in 1..MaxBackoffTime :
        /\ BackoffGap(k) <= BackoffGap(k + 1)
        /\ BackoffGap(k + 1) <= 10 * retry_interval
        /\ timeout_exponential_backoff(retries_before_backoff, retry_interval,
                                       retry_interval * 10, k) = BackoffGap(k)

\* C21: the gap between the k-th and the next send of a retryable entry that
\* stays pending is at least retry_interval for the first
\* retries_before_backoff gaps, then twice the gap before, capped at 10 times
\* retry_interval; the gaps never decrease and never exceed that cap.
C21_BackoffGaps == []C21_GapsGrowToCeiling /\ [][C21_DeadlineIsSendPlusGap]_vars

\* C21 happens: the entry was sent six times, each time as soon as its timeout
\* had passed (gaps 1, 2, 4, 8, 10), and waits for the ceiling again
C21_SixthSendAtCeiling ==
    \E r \in RetrierIds : \E e \in Generators(message_queue[r]) :
        /\ e.gen.k = 6 /\ now = 25 /\ e.gen.next = 35
        /\ send_raw_call[r].outcome = "posted"

\* a queue whose iteration is inside _check_and_send, in a request or in the
\* join of the broadcast queue, holds its lock, and the lock is held by nothing
\* else
C22_LockedInCheckAndSend ==
    \A r \in RetrierIds :
        /\ pc[r] \in {"send", "join"} => lock[r] /\ greenlet[r] = "running"
        /\ lock[r] => pc[r] \in {"send", "join"}

\* while the lock of a queue is held no entry is added to its buffer and its
\* wake signal is not set
C22_NothingAddedUnderLock ==
    \A r \in RetrierIds :
        lock[r] => /\ Pairs(message_queue'[r]) \subseteq Pairs(message_queue[r])
                   /\ notify_event'[r] => notify_event[r]

\* C22: an iteration of a queue's loop is inside _check_and_send only with the
\* queue's lock held, and while it is, no enqueue appends to the buffer and no
\* notify sets the wake signal.
C22_MutualExclusion == []C22_LockedInCheckAndSend /\ [][C22_NothingAddedUnderLock]_vars

\* C22 happens: a send_async waits for the lock of a queue whose pass has a
\* request in flight
C22_EnqueueWaits ==
    /\ sender.op = "enqueue"
    /\ lock[sender.r] /\ pc[sender.r] = "send"
    /\ [queue_identifier |-> sender.queue_identifier, message |-> sender.message]
          \notin Pairs(message_queue[sender.r])

\* C23 as stated: a create_room is issued for a peer only while no room is
\* registered for the peer, so concurrent calls of one address create one room.
CreateRoomIssued(address) ==
    creating[address].pc = "search" /\ creating'[address].pc = "create"

C23_OneRoomPerAddress ==
    [][\A address \in Peers :
          CreateRoomIssued(address) => get_room_for_address(address, FALSE) = NoRoom]_vars

\* C23, what the code keeps: no two calls for one address are inside
\* room_creation_lock at once, so their create_room calls follow one another;
\* the test for a room (1089) is made before the lock and not again inside it.
C23_CreationsOfAnAddressAreSerial ==
    \A address \in Peers :
        /\ creating[address].waiting > 0 => creating[address].pc # "none"
        /\ creating[address].room # NoRoom => creating[address].pc \in {"poll", "sleep"}

\* C23 fails: the second of two concurrent calls has made a second room for the
\* peer, and both rooms are in _address_to_room_ids
C23_SecondRoomCreated ==
    /\ "priv2" \in client_rooms /\ "priv3" \in client_rooms
    /\ Len(address_to_room_ids["p2"]) = 2
    /\ ~stop_event

\* C24: no wake-up is lost.  An enqueue that appends an entry to a queue whose
\* greenlet is alive leaves _notify_event set (or the greenlet not yet run); the
\* event stays set until the loop of that queue takes its next turn, which
\* clears it before it reads the buffer; and a loop that waits with the event
\* set is free to take that turn, so it does not wait for retry_interval.
Appended(r) == ~(Pairs(message_queue'[r]) \subseteq Pairs(message_queue[r]))

C24_AppendSetsTheEvent ==
    \A r \in RetrierIds :
        Appended(r) /\ Truthy(greenlet'[r]) =>
            notify_event'[r] \/ greenlet'[r] = "pending"

C24_OnlyTheLoopClearsTheEvent ==
    \A r \in RetrierIds :
        notify_event[r] /\ ~notify_event'[r] /\ ~Remade(r) =>
            /\ RetrierStart(r) \/ RetrierNotified(r)
            /\ ~stop_event /\ ~lock[r]
            /\ ~Appended(r)

C24_NotifiedLoopIsFree ==
    \A r \in RetrierIds :
        greenlet[r] = "running" /\ pc[r] = "wait" /\ notify_event[r] =>
            ~lock[r] /\ ENABLED RetrierNotified(r) /\ ~ENABLED RetrierTimeout(r)

C24_NoLostWakeup ==
    /\ []C24_NotifiedLoopIsFree
    /\ [][C24_AppendSetsTheEvent /\ C24_OnlyTheLoopClearsTheEvent]_vars

\* C24 happens: an entry no iteration has seen yet is in the buffer of a loop
\* that waits, and the event is set
C24_EntryWakesWaitingLoop ==
    \E r \in RetrierIds :
        /\ greenlet[r] = "running" /\ pc[r] = "wait" /\ notify_event[r]
        /\ last_enqueue.r = r /\ ~last_enqueue.duplicate
        /\ \E i \in DOMAIN message_queue[r] :
              /\ message_queue[r][i].expiration_generator.k = 0
              /\ i > 1 => message_queue[r][1].expiration_generator.k > 0

\* _notify_event.wait(retry_interval) times out in a loop whose lock nobody
\* waits for.  A caller blocked on the lock is woken by the release and runs
\* as soon as the loop blocks in wait(), before the timer of the wait can expire.
RetrierTimeoutAfterWaiters(r) == r \notin Referenced /\ RetrierTimeout(r)

\* A node whose queue for the partner posts what the application sends and the
\* acknowledgements of what the partner sends, gets empty again and exits idle;
\* the callers that found the lock held go on before the loop's timer.
NextIdle ==
    \/ StartOnce
    \/ StartFinish
    \/ Whitelist(Partner)
    \/ HandleInvite(PartnerInvite(TRUE))
    \/ AddressReachabilityChanged(Partner, "REACHABLE")
    \/ SyncMessages(<<PartnerText>>)
    \/ SyncMessagesResumes
    \/ Sends({1})
    \/ AppQueueRemove(ChannelQueue, 1)
    \/ \E r \in RetrierIds :
          \/ RetrierStart(r)
          \/ RetrierNotified(r)
          \/ RetrierTimeoutAfterWaiters(r)
          \/ RetrierSent(r)

SpecIdle == Init /\ [][NextIdle]_vars

\* C25: no entry is stranded by an idle exit.  A queue whose worker has exited
\* idle has an empty buffer, from the exit until start() restarts the worker,
\* and neither _send_with_retry nor the acknowledgement path appends to it in
\* between: _get_retrier gives them a new queue.
IdleExited(r) == greenlet[r] = "finished" /\ is_idle(idle_since[r])

C25_EmptyAtIdleExit ==
    \A r \in RetrierIds : IdleExited(r) => message_queue[r] = <<>>

C25_NoAppendAfterIdleExit ==
    \A r \in RetrierIds : IdleExited(r) /\ ~Remade(r) => ~Appended(r)

C25_NothingStrandedByIdleExit ==
    []C25_EmptyAtIdleExit /\ [][C25_NoAppendAfterIdleExit]_vars

\* C25 happens: a queue has exited idle and the partner's next message is in
\* the buffer of the queue that took its place in the map
C25_AppendedToTheNewQueue ==
    \E r \in RetrierIds :
        /\ IdleExited(r)
        /\ address_to_retrier[receiver[r]] \notin {r, NoRetrier}
        /\ message_queue[address_to_retrier[receiver[r]]] # <<>>

\* C26: broadcast messages go first.  A _check_and_send that begins while
\* _prioritize_broadcast_messages is set issues its first _send_raw only when
\* every message put in the broadcast queue was taken, posted and marked done;
\* a message is marked done only by the step that ends the posting of its
\* room's batches; the worker clears the flag at the end of each iteration of
\* its loop, so from the first on, and nothing sets it again.
IssuesFirstSendRaw(r) ==
    /\ send_raw_call'[r] # send_raw_call[r]
    /\ send_raw_call'[r].outcome \in {"in_flight", "no_room"}
    /\ send_raw_call'[r].first

C26_SendAfterBroadcasts ==
    \A r \in RetrierIds :
        IssuesFirstSendRaw(r) /\ (prioritize_broadcast_messages \/ pc[r] = "join") =>
            /\ unfinished_tasks = 0
            /\ broadcast_queue = <<>>
            /\ bw_batches = <<>> /\ bw_pc # "send"
            /\ pc[r] = "join" => broadcast_posts # {}

C26_DoneWhenPosted ==
    unfinished_tasks' < unfinished_tasks =>
        /\ bw_pc = "send"
        /\ unfinished_tasks - unfinished_tasks' = Head(bw_batches).done
        /\ \E post \in broadcast_posts' : post.data = Head(bw_batches).data

C26_FlagClearedForGood ==
    /\ ~prioritize_broadcast_messages => ~prioritize_broadcast_messages'
    /\ prioritize_broadcast_messages /\ ~prioritize_broadcast_messages' =>
          /\ bw_pc \in {"start", "send"} /\ bw_pc' = "wait"
          /\ bw_batches' = <<>>

C26_FlagSetUntilFirstDrain == bw_pc = "wait" => ~prioritize_broadcast_messages

C26_BroadcastsFirst ==
    /\ []C26_FlagSetUntilFirstDrain
    /\ [][C26_SendAfterBroadcasts /\ C26_DoneWhenPosted /\ C26_FlagClearedForGood]_vars

\* C26 happens: a queue with an entry for a REACHABLE partner waits in
\* _broadcast_queue.join() while the broadcast message is being posted, and
\* nothing was handed to the partner's room
C26_QueueWaitsForBroadcast ==
    \E r \in RetrierIds :
        /\ pc[r] = "join" /\ lock[r] /\ message_queue[r] # <<>>
        /\ reachability[receiver[r]] = "REACHABLE"
        /\ get_room_for_address(receiver[r], TRUE) # NoRoom
        /\ prioritize_broadcast_messages
        /\ bw_pc = "send" /\ unfinished_tasks = 1
        /\ room_posts = {}

\* Texts the homeserver may deliver: in a private or a broadcast room, of a
\* valid type or not, from the partner, from another peer, from our own user or
\* from a user whose display name is signed by nobody; the line of the body is
\* signed by the sender's address.
FilterTexts ==
    {[room |-> room, valid_type |-> valid_type, sender |-> user,
      body |-> <<Line(TRUE, "Retrieable", 1, validate_userid_signature(user))>>] :
        room \in {"priv1", "balias", "bcanon"},
        valid_type \in BOOLEAN,
        user \in {UserOf("p1"), UserOf("p2"), SelfUser, Stranger}}

\* A started node that whitelists peers, is invited by its partner to a private
\* room and to the broadcast rooms, and gets texts of every kind.
NextFilter ==
    \/ StartOnce
    \/ StartFinish
    \/ \E address \in Peers : Whitelist(address)
    \/ \E room \in {"priv1", "balias", "bcanon"} : HandleInvite(InviteTo(room))
    \/ \E text \in FilterTexts : SyncMessages(<<text>>)

SpecFilter == Init /\ [][NextFilter]_vars

\* a room with a configured broadcast suffix in an alias or its canonical alias
BroadcastByAnyAlias(room) ==
    \E suffix \in broadcast_rooms :
        \E room_alias \in aliases(room) \cup ({canonical_alias(room)} \ {NoAlias}) :
            Contains(suffix, room_alias)

\* the conditions of C27 on a text, with a given test for broadcast rooms
PassesFilter(text, broadcast(_)) ==
    LET peer_address == validate_userid_signature(text.sender)
    IN  /\ ~broadcast(text.room)
        /\ text.valid_type
        /\ text.sender # SelfUser
        /\ peer_address # "none"
        /\ peer_address \in known_addresses
        /\ \E i \in DOMAIN address_to_room_ids[peer_address] :
              address_to_room_ids[peer_address][i] = text.room

\* the batch handled in this step: what the handler got comes from texts that
\* pass, and a Delivered is queued only for what the handler got
HandledAsFiltered(broadcast(_)) ==
    inbox' # inbox =>
        /\ inbox'.accepted = AllMessages(inbox'.batch)
        /\ \A i \in DOMAIN inbox'.accepted :
              \E j \in DOMAIN inbox'.batch :
                  /\ PassesFilter(inbox'.batch[j], broadcast)
                  /\ \E k \in DOMAIN inbox'.batch[j].body :
                        inbox'.batch[j].body[k].id = inbox'.accepted[i].id
        /\ \A i \in DOMAIN inbox'.acks :
              \E k \in DOMAIN inbox'.accepted : inbox'.accepted[k] = inbox'.acks[i]
        /\ inbox'.accepted = <<>> =>
              /\ message_queue' = message_queue
              /\ address_to_retrier' = address_to_retrier

\* C27 as stated: a message reaches the application's handler only if its text
\* came in a room that is no broadcast room, has the valid type, is not our
\* own, is from a user signed by a whitelisted address and came in a room
\* registered for that address; a text that fails is skipped without a Delivered.
C27_OnlyFilteredMessagesHandled ==
    [][HandledAsFiltered(BroadcastByAnyAlias)]_vars

\* C27 with the code's test for broadcast rooms
C27_FilteredByTheCodesTests ==
    [][HandledAsFiltered(is_broadcast_room)]_vars

\* C27 happens: the partner's text in its private room was handed over
C27_PartnerTextHandled ==
    /\ Len(inbox.accepted) = 1 /\ inbox.delivered
    /\ Len(inbox.batch) = 1 /\ inbox.batch[1].room = "priv1"
    /\ inbox.batch[1].sender = UserOf(Partner)

\* C27 fails: a text that came in the path-finding broadcast room was handed over
C27_BroadcastTextHandled ==
    /\ Len(inbox.accepted) = 1 /\ inbox.delivered
    /\ Len(inbox.batch) = 1 /\ inbox.batch[1].room = "bcanon"

\* C28 as stated: a room the node is in is classified as a broadcast room
\* exactly when one of its aliases, the canonical alias included, contains a
\* configured broadcast suffix.
C28_BroadcastIffAnyAlias ==
    \A room \in client_rooms : is_broadcast_room(room) <=> BroadcastByAnyAlias(room)

\* C28, what the code computes: the test runs over room.aliases alone, so a
\* room is classified as a broadcast room exactly when a listed alias matches
C28_BroadcastIffListedAlias ==
    \A room \in client_rooms :
        /\ is_broadcast_room(room) => BroadcastByAnyAlias(room)
        /\ is_broadcast_room(room) <=>
              \E room_alias \in aliases(room) : \E suffix \in broadcast_rooms :
                  Contains(suffix, room_alias)

\* C28 fails: the node is in the path-finding room, which matches by its
\* canonical alias only, and in the discovery room, which lists its alias
C28_CanonicalOnlyRoomJoined ==
    /\ {"balias", "bcanon"} \subseteq client_rooms
    /\ is_broadcast_room("balias") /\ ~is_broadcast_room("bcanon")
    /\ canonical_alias("bcanon") = PathFindingAlias /\ aliases("bcanon") = {}

\* the room C29 describes, with a given test for broadcast rooms: the first
\* room of the address map's list for the address that the client knows, that
\* is private and no broadcast room and, when an online peer is required, that
\* has a joined member among the address's reachable users
RoomAsSpecified(address, require_online_peer, broadcast(_)) ==
    LET ids == address_to_room_ids[address]
        Fits(i) == /\ ids[i] \in client_rooms
                   /\ invite_only[ids[i]]
                   /\ ~broadcast(ids[i])
                   /\ require_online_peer =>
                         /\ reachability[address] = "REACHABLE"
                         /\ UserOf(address) \in joined_members(ids[i])
        fitting == {i \in DOMAIN ids : Fits(i)}
    IN  IF fitting = {} THEN NoRoom
        ELSE ids[CHOOSE i \in fitting : \A j \in fitting : i <= j]

\* C29 as stated: _get_room_for_address returns that room, or none, and never
\* a broadcast room.
C29_RoomForAddress ==
    \A address \in known_addresses : \A require_online_peer \in BOOLEAN :
        /\ get_room_for_address(address, require_online_peer)
              = RoomAsSpecified(address, require_online_peer, BroadcastByAnyAlias)
        /\ ~BroadcastByAnyAlias(get_room_for_address(address, require_online_peer))

\* C29 with the code's test for broadcast rooms
C29_RoomForAddressByTheCodesTest ==
    \A address \in known_addresses : \A require_online_peer \in BOOLEAN :
        /\ get_room_for_address(address, require_online_peer)
              = RoomAsSpecified(address, require_online_peer, is_broadcast_room)
        /\ ~is_broadcast_room(get_room_for_address(address, require_online_peer))

\* C29 happens: the partner has two rooms in the map, its private room first,
\* which is returned when no online peer is required and, the partner not
\* being REACHABLE, no room is returned when one is
C29_FirstRoomUnlessOnlineRequired ==
    /\ Partner \in known_addresses
    /\ Len(address_to_room_ids[Partner]) = 2
    /\ reachability[Partner] # "REACHABLE"
    /\ get_room_for_address(Partner, FALSE) = "priv1"
    /\ get_room_for_address(Partner, TRUE) = NoRoom

\* C29 fails: the room returned for the partner is the path-finding room
C29_BroadcastRoomReturned ==
    /\ Partner \in known_addresses
    /\ get_room_for_address(Partner, FALSE) = "bcanon"

\* C30: a room creation that ends with a joined member that is neither our
\* user nor a validated user of the peer leaves the room and registers
\* neither the room nor the peer's users; one that ends with allowed members
\* only registers both, and only such a creation registers the room.
CreationEnded(address) == last_creation'[address] # last_creation[address]

C30_UnexpectedMemberLeavesRoom ==
    \A address \in Peers :
        CreationEnded(address) =>
            LET end == last_creation'[address]
            IN  IF end.members \subseteq end.valid_user_ids
                THEN /\ address_to_room_ids'[address] # <<>>
                     /\ Head(address_to_room_ids'[address]) = end.room
                     /\ end.room \in client_rooms'
                     /\ end.valid_user_ids \ {SelfUser} \subseteq address_to_userids'[address]
                ELSE /\ end.room \notin client_rooms'
                     /\ address_to_room_ids' = address_to_room_ids
                     /\ address_to_userids' = address_to_userids

C30_RoomAddedOnlyByCleanCreation ==
    \A address \in Peers :
        /\ address_to_userids'[address] # address_to_userids[address]
                => CreationEnded(address)
        /\ \A room \in {"priv2", "priv3"} :
              /\ \E i \in DOMAIN address_to_room_ids'[address] :
                    address_to_room_ids'[address][i] = room
              /\ \A i \in DOMAIN address_to_room_ids[address] :
                    address_to_room_ids[address][i] # room
              => /\ CreationEnded(address)
                 /\ last_creation'[address].room = room
                 /\ last_creation'[address].members
                       \subseteq last_creation'[address].valid_user_ids

JoinInvites ==
    {[room_id |-> room, sender |-> user, invite_event |-> invite_event,
      join_event |-> join_event, private_room |-> TRUE] :
        room \in {"priv1", "balias", "bcanon"},
        user \in {UserOf(Partner), Stranger},
        invite_event \in BOOLEAN,
        join_event \in BOOLEAN}

\* A node that is invited while it starts, while it runs and after it was
\* stopped, on a homeserver whose join_room can fail.
NextJoin ==
    \/ StartOnce
    \/ StartFinish
    \/ ProcessQueuedInvites
    \/ Whitelist(Partner)
    \/ \E invite \in JoinInvites : HandleInvite(invite)
    \/ \E invite \in JoinInvites : HandleInviteJoinFails(invite)
    \/ \E ok \in BOOLEAN : JoinRetried(ok)
    \/ StopBegin
    \/ StopFinish

SpecJoin == Init /\ [][NextJoin]_vars

\* the invites _handle_invite is to drop
InvalidInvites ==
    {invite \in JoinInvites :
        \/ ~invite.invite_event
        \/ ~invite.join_event
        \/ validate_userid_signature(invite.sender) = "none"}

\* a step of _handle_invite for an invite, with a join_room that succeeds or
\* fails
HandlesInvite(invite) == HandleInvite(invite) \/ HandleInviteJoinFails(invite)

\* a step that calls join_room neither with success (the room is added to
\* the client's) nor in vain (the handler is left waiting to try again), and
\* leaves the map of the addresses' rooms alone
NoJoinAndNoRoomRecorded ==
    /\ client_rooms' = client_rooms
    /\ invite_only' = invite_only
    /\ sync' = sync
    /\ address_to_room_ids' = address_to_room_ids

\* C31 (part): an invite without our invite event, without the sender's join
\* event or from a sender whose signature does not validate, and any invite
\* handled once stop is signalled, makes no join_room call and leaves the map
\* of the addresses' rooms unchanged.
C31_InvalidInviteDropped ==
    [][\A invite \in JoinInvites :
          (invite \in InvalidInvites \/ stop_event) /\ HandlesInvite(invite)
              => NoJoinAndNoRoomRecorded]_vars

\* C31 (part): the same for the invites that were queued during the start and
\* are handled by _process_queued_invites.
C31_QueuedInvalidInviteDropped ==
    [][ProcessQueuedInvites
         /\ (stop_event \/ \A i \in 1..Len(invite_queue) : invite_queue[i] \in InvalidInvites)
              => NoJoinAndNoRoomRecorded]_vars

\* C31: an invalid invite, and any invite handled after stop was signalled,
\* causes no join_room call and leaves the address map unchanged.
C31_InvalidInvitesAreIgnored ==
    C31_InvalidInviteDropped /\ C31_QueuedInvalidInviteDropped

\* C31 witness: the running node handles an invite of its partner that lacks
\* the join event, while the partner's room is not joined and the partner has
\* no room in the map; and stop has been signalled to a node that listens.
C31_InviteHandledWhileRunning ==
    \/ /\ Listening /\ ~starting /\ ~stop_event /\ sync = Idle
       /\ "priv1" \notin client_rooms
       /\ address_to_room_ids[Partner] = <<>>
       /\ Partner \in known_addresses
       /\ ENABLED HandleInvite([PartnerInvite(TRUE) EXCEPT !.join_event = FALSE])
    \/ /\ Listening /\ stop_event /\ sync = Idle
       /\ "priv1" \notin client_rooms
       /\ ENABLED HandleInvite(PartnerInvite(TRUE))

\* the handler of an invite is in, or has left by an exception, its loop of
\* join attempts
InJoinLoop == sync.op \in {"join", "raised"}

\* a step in which join_room returns the room of a valid invite: at the first
\* attempt, or at a later one
JoinSucceeds(invite) ==
    \/ /\ ~stop_event /\ ~starting /\ invite \in JoinInvites \ InvalidInvites
       /\ HandleInvite(invite)
    \/ /\ sync.op = "join" /\ sync.invite = invite
       /\ JoinRetried(TRUE)
       /\ sync' = Idle

\* after the step the handler has ended, the client has the room, and the room
\* is the first of the sender's address unless broadcast(room), in which case
\* the map is as before
RecordedUnlessBroadcast(invite, broadcast(_)) ==
    /\ sync' = Idle
    /\ invite.room_id \in client_rooms'
    /\ IF broadcast(invite.room_id)
       THEN address_to_room_ids' = address_to_room_ids
       ELSE /\ address_to_room_ids'[validate_userid_signature(invite.sender)] # <<>>
            /\ Head(address_to_room_ids'[validate_userid_signature(invite.sender)])
                  = invite.room_id

\* C32 (part): join_room is attempted at most JOIN_RETRIES times for an invite.
C32_AtMostJoinRetriesAttempts ==
    InJoinLoop => sync.attempts \in 1..JOIN_RETRIES

\* C32 (part): the wait after the n-th failed attempt is 0.1 s doubled n - 1
\* times (retry_interval is in tenths of a second).
C32_WaitDoubles ==
    sync.op = "join" => sync.retry_interval = TwoToThe(sync.attempts - 1)

\* C32 (part): when all JOIN_RETRIES attempts have failed and stop was not
\* signalled, the last error is raised and no room is recorded; the error is
\* raised in no other case.
C32_LastErrorRaised ==
    [][/\ sync.op = "join" /\ ~stop_event /\ sync.attempts = JOIN_RETRIES /\ sync' # sync
           => /\ sync'.op = "raised" /\ sync'.error = "MatrixRequestError"
              /\ address_to_room_ids' = address_to_room_ids
              /\ client_rooms' = client_rooms
       /\ sync.op = "join" /\ sync'.op = "raised" /\ sync'.error = "MatrixRequestError"
           => sync.attempts = JOIN_RETRIES]_vars

\* C32: for a valid invite join_room is attempted at most JOIN_RETRIES times,
\* the wait between failed attempts doubling from 0.1 s; the first success ends
\* the attempts and, unless the room is a broadcast room (one with a matching
\* alias or canonical alias), records the room for the inviting peer's address
\* whether or not the address is whitelisted; when all attempts fail the last
\* error is raised and no room is recorded.
C32_JoinRetriedAndRecorded ==
    /\ [](C32_AtMostJoinRetriesAttempts /\ C32_WaitDoubles)
    /\ C32_LastErrorRaised
    /\ [][\A invite \in JoinInvites :
             JoinSucceeds(invite) => RecordedUnlessBroadcast(invite, BroadcastByAnyAlias)]_vars

\* C32 (as the code has it): the same with the code's own test for a broadcast
\* room, which does not look at the canonical alias.
C32_JoinRetriedAndRecordedByTheCodesTest ==
    /\ [](C32_AtMostJoinRetriesAttempts /\ C32_WaitDoubles)
    /\ C32_LastErrorRaised
    /\ [][\A invite \in JoinInvites :
             JoinSucceeds(invite) => RecordedUnlessBroadcast(invite, is_broadcast_room)]_vars

\* C32 witness: the room of the partner was recorded for its address, which
\* is not whitelisted, and the last error of another invite's joins was raised.
C32_RecordedAndRaised ==
    /\ address_to_room_ids[Partner] = <<"priv1">>
    /\ Partner \notin known_addresses
    /\ sync.op = "raised" /\ sync.error = "MatrixRequestError"
    /\ sync.attempts = JOIN_RETRIES

\* C32 witness: the room of the path-finding service, whose alias is its
\* canonical alias only, is recorded as a room of the partner.
C32_BroadcastRoomRecorded ==
    /\ address_to_room_ids[Partner] # <<>>
    /\ Head(address_to_room_ids[Partner]) = "bcanon"

\* C33: the assertion after the loop of join attempts never fails: when stop
\* is signalled while the handler waits between failed attempts, the handler
\* ends without raising and without recording a room for the peer.
C33_StopEndsJoinLoopQuietly ==
    /\ [](sync.op = "raised" => sync.error # "AssertionError")
    /\ [][sync.op = "join" /\ stop_event /\ sync' # sync
            => /\ sync' = Idle
               /\ address_to_room_ids' = address_to_room_ids]_vars

\* C33 (what holds): the handler woken by the stop records no room, joins
\* none and makes no further attempt.
C33_NoRoomRecordedOnStop ==
    [][sync.op = "join" /\ stop_event /\ sync' # sync
         => /\ sync'.op = "raised" /\ sync'.attempts = sync.attempts
            /\ address_to_room_ids' = address_to_room_ids
            /\ client_rooms' = client_rooms]_vars

\* C33 witness: the handler waited after a failed join_room, stop was
\* signalled, and `assert room is not None` failed.
C33_AssertionFailed ==
    /\ stop_event
    /\ sync.op = "raised" /\ sync.error = "AssertionError"

\* C34: whenever the greenlet of a RetryQueue starts to run, the transport's
\* raiden service is set, so the assertion at the top of _RetryQueue._run does
\* not fail, also for a queue made by a send_async before start() or after
\* stop().
C34_ServiceSetWhenQueueRuns ==
    [][\A r \in RetrierIds : RetrierStart(r) => raiden_service /\ greenlet'[r] # "failed"]_vars

\* C34 (what holds): the greenlet of a RetryQueue that starts to run once
\* start() has been called, be it after stop(), finds the raiden service set.
C34_ServiceSetOnceStarted ==
    [][\A r \in RetrierIds :
          RetrierStart(r) /\ transport_greenlet # "new"
              => raiden_service /\ greenlet'[r] # "failed"]_vars

\* C34 witness: the greenlet of a queue made before start() has failed its
\* assertion.
C34_QueueFailedBeforeStart ==
    \E r \in RetrierIds :
        /\ greenlet[r] = "failed"
        /\ ~raiden_service
        /\ transport_greenlet = "new"

\* C34 witness: a queue made after stop() runs.
C34_QueueRunsAfterStop ==
    \E r \in RetrierIds :
        /\ stop_event /\ raiden_service
        /\ greenlet[r] \notin {"pending", "failed", "none"}
        /\ \E a \in Peers : address_to_retrier[a] = r

\* --------------------------------------------------------- room inventory
\* A node that is started on an account that joined rooms in earlier runs, and
\* is stopped.
NextInventory ==
    \/ StartOnce
    \/ \E rooms \in SUBSET RoomIds : \E private \in SUBSET rooms : FirstSync(rooms, private)
    \/ StartFinish
    \/ StopBegin
    \/ StopFinish

SpecInventory == Init /\ [][NextInventory]_vars

\* the addresses, other than our own, that the display names of a room's
\* joined members are signed by
PartnersOf(room) ==
    {address \in Peers : \E user \in joined_members(room) :
        validate_userid_signature(user) = address}

\* the addresses a map of room ids lists the room for
ListedFor(room_ids, room) ==
    {address \in Peers : \E i \in DOMAIN room_ids[address] : room_ids[address][i] = room}

\* the rooms of the client that come after the room in the inventory's loop
\* and have the same single partner
LaterRoomsOfPartner(room) ==
    {later \in client_rooms :
        /\ PartnersOf(later) = PartnersOf(room)
        /\ ~is_broadcast_room(later)
        /\ \E i, j \in DOMAIN RoomOrder :
               i < j /\ RoomOrder[i] = room /\ RoomOrder[j] = later}

SuffixesWithRoom ==
    {suffix \in broadcast_rooms :
        \E room \in client_rooms :
            \E room_alias \in aliases(room) \cup ({canonical_alias(room)} \ {NoAlias}) :
                Contains(suffix, room_alias)}

\* the keys of _broadcast_rooms that are of a suffix
RegisteredFor(registered, suffix) ==
    {k \in DOMAIN registered : Contains(suffix, k)}

\* C36 (part): after start() every configured suffix has exactly one
\* registered broadcast room.
C36_OneRoomPerSuffix ==
    [][StartFinish =>
          \A suffix \in broadcast_rooms :
              Cardinality(RegisteredFor(broadcast_room_of', suffix)) = 1]_vars

\* C36: a broadcast room among the client's rooms at startup is registered by
\* the inventory, and _initialize_broadcast_rooms calls join_broadcast_room
\* only for the suffixes whose room the inventory did not register; after
\* startup every configured suffix has exactly one registered broadcast room.
C36_JoinsOnlyMissingBroadcastRooms ==
    /\ [][StartFinish =>
             /\ \A suffix \in SuffixesWithRoom :
                   /\ make_room_alias(suffix) \notin broadcast_joins'
                   /\ RegisteredFor(broadcast_room_of', suffix) # {}
             /\ \A suffix \in broadcast_rooms \ SuffixesWithRoom :
                   make_room_alias(suffix) \in broadcast_joins']_vars
    /\ C36_OneRoomPerSuffix

\* C36 (what holds): the inventory registers no room of the client, and
\* join_broadcast_room is called for every configured suffix.
C36_JoinsEveryBroadcastRoom ==
    /\ [][StartFinish =>
             /\ initialize_room_inventory.broadcast = <<>>
             /\ broadcast_joins' = {make_room_alias(suffix) : suffix \in broadcast_rooms}]_vars
    /\ C36_OneRoomPerSuffix

\* C36 witness: the first sync of a start() has found the discovery room
\* among the client's rooms; and the start() of a node has called
\* join_broadcast_room for the discovery room.
C36_JoinedRoomJoinedAgain ==
    \/ /\ main.op = "start" /\ "balias" \in client_rooms
    \/ /\ main = Idle /\ presence = "online"
       /\ start_log = StartHead \o StartSteps
       /\ make_room_alias("discovery") \in broadcast_joins

\* ------------------------------------------------- repeated start and stop
\* start() that goes on although _stop_event is not set
StartAnywayCalled ==
    /\ sender = Idle
    /\ ~stop_event
    /\ starting' = TRUE
    /\ raiden_service' = TRUE
    /\ sender' = [op |-> "returned", call |-> "start", error |-> "none"]
    /\ UNCHANGED <<stop_event, transport_greenlet, presence, stopping, bvars, roomvars,
                   address_to_retrier, rqvars, envvars, main, sync, histvars, loghist>>

\* A second caller calls start() while _stop_event is not set:
\* `if not self._stop_event.ready(): raise RuntimeError`
StartAgainCalled ==
    /\ sender = Idle
    /\ ~stop_event
    /\ sender' = [op |-> "raised", call |-> "start", error |-> "RuntimeError"]
    /\ UNCHANGED <<tvars, bvars, roomvars, address_to_retrier, rqvars, envvars, main, sync,
                   histvars, loghist>>

\* A second caller calls stop() while _stop_event is set:
\* `if self._stop_event.ready(): return`
StopAgainCalled ==
    /\ sender = Idle
    /\ stop_event
    /\ sender' = [op |-> "returned", call |-> "stop", error |-> "none"]
    /\ UNCHANGED <<tvars, bvars, roomvars, address_to_retrier, rqvars, envvars, main, sync,
                   histvars, loghist>>

\* the second caller goes on after its call
CallerResumes ==
    /\ sender.op \in {"raised", "returned"}
    /\ sender' = Idle
    /\ UNCHANGED <<tvars, bvars, roomvars, address_to_retrier, rqvars, envvars, main, sync,
                   histvars, loghist>>

\* A node that is started, used and stopped, while a second caller calls
\* start() and stop() at any time.
NextCalls ==
    \/ NextStart
    \/ StartAgainCalled
    \/ StopAgainCalled
    \/ CallerResumes

SpecCalls == Init /\ [][NextCalls]_vars

\* a step in which the second caller's call of start() or stop() ends
CallEnds(call) ==
    /\ sender = Idle
    /\ sender'.op \in {"raised", "returned"}
    /\ sender'.call = call

\* the step leaves every field of the transport, of its queues and of its
\* client as it was
TransportUntouched ==
    UNCHANGED <<tvars, bvars, roomvars, address_to_retrier, rqvars>>

\* C37 (part): a start() call goes past its first test only when the stop
\* signal is set, and a stop() call only when it is not.
C37_CallsProceedOnlyWhenDue ==
    [][/\ main.op # "start" /\ main'.op = "start" => stop_event /\ ~stop_event'
       /\ stopping = Idle /\ stopping' # Idle => ~stop_event /\ stop_event']_vars

\* C37: start() on a transport whose stop signal is not set raises
\* RuntimeError and changes no state of the transport; stop() on a transport
\* whose stop signal is set returns at once: no queue is notified, the map of
\* the queues is not cleared and the client is not touched.
C37_RepeatedStartAndStop ==
    /\ [][/\ CallEnds("start") /\ ~stop_event
              => sender'.error = "RuntimeError" /\ TransportUntouched
          /\ CallEnds("stop") /\ stop_event
              => sender'.op = "returned" /\ TransportUntouched]_vars
    /\ C37_CallsProceedOnlyWhenDue

\* C37 witness: start() has raised RuntimeError on a transport that is
\* starting or started, with a queue in the map; or stop() has returned on a
\* stopped transport that still has a queue in the map.
C37_SecondCallEnded ==
    /\ \E a \in Peers : address_to_retrier[a] # NoRetrier
    /\ \/ sender.op = "raised" /\ sender.call = "start" /\ ~stop_event
       \/ sender.op = "returned" /\ sender.call = "stop" /\ stop_event

\* the timeout the timeout generator of an entry yields after k others
NextTimeout(k) ==
    timeout_exponential_backoff(retries_before_backoff, retry_interval, retry_interval * 10,
                                k + 1)

\* C38 (part): evaluated at any time from now on, the generator of an entry of
\* a queue yields True iff it was never evaluated or its deadline has come; a
\* True starts the next timeout at the time of the evaluation, a False leaves
\* the generator as it is.
C38_ReadyIffDue ==
    \A r \in RetrierIds : \A e \in Generators(message_queue[r]) :
        \A t \in now..(MaxBackoffTime + 1) :
            LET result == expiration_generator(e.gen, t)
            IN  /\ result.ready = (e.gen.k = 0 \/ t >= e.gen.next)
                /\ result.ready => /\ result.gen.k = e.gen.k + 1
                                   /\ result.gen.next = t + NextTimeout(e.gen.k)
                /\ ~result.ready => result.gen = e.gen

\* C38 (part): a pass of the queue moves the generator of an entry it keeps
\* only by an evaluation at the time of the pass that yields True, and the
\* deadline an entry holds was taken at a True not later than now.
C38_MovedByReadyEvaluation ==
    \A r \in RetrierIds : \A old \in Generators(message_queue[r]) :
        \A new \in Generators(message_queue'[r]) :
            (/\ old.queue_identifier = new.queue_identifier /\ old.message = new.message
             /\ ~Remade(r)
             /\ new.gen # old.gen)
                => /\ expiration_generator(old.gen, now).ready
                   /\ new.gen = expiration_generator(old.gen, now).gen
                   /\ new.gen.next - NextTimeout(old.gen.k) = now

\* C38: the expiration predicate of an entry is ready at its first evaluation;
\* after a ready at time t with timeout d every evaluation before t + d is
\* not ready, and the first evaluation at t + d or later is ready and starts
\* the next timeout at its own time.
C38_ExpirationPredicate == []C38_ReadyIffDue /\ [][C38_MovedByReadyEvaluation]_vars

\* C38 witness: the generator of an entry was ready at 0, and again at 1 with
\* the timeout 2, so that it is not ready at time 2 and ready at time 3.
C38_WaitsForSecondTimeout ==
    \E r \in RetrierIds : \E e \in Generators(message_queue[r]) :
        /\ e.gen.k = 2 /\ e.gen.next = 3 /\ now = 2
        /\ ~expiration_generator(e.gen, now).ready
        /\ expiration_generator(e.gen, now + 1).ready

\* the elements of a sequence
Elements(seq) == {seq[i] : i \in DOMAIN seq}

\* no element twice
NoRepeats(seq) == \A i, j \in DOMAIN seq : seq[i] = seq[j] => i = j

\* the elements of sub are elements of seq, in the order they have in seq
InOrderOf(sub, seq) ==
    \A i, j \in DOMAIN sub :
        i < j => \E k, l \in DOMAIN seq : k < l /\ seq[k] = sub[i] /\ seq[l] = sub[j]

\* C39 (part): _get_room_ids_for_address returns the stored ids of the
\* address whose room the client knows and is invite-only, each once and in
\* the stored order.
C39_ReadIsFilteredList ==
    \A address \in Peers :
        LET stored == address_to_room_ids[address]
            returned == get_room_ids_for_address(address)
        IN  /\ Elements(returned) =
                  {room \in Elements(stored) : room \in client_rooms /\ invite_only[room]}
            /\ NoRepeats(returned)
            /\ Len(returned) > 1 => InOrderOf(returned, stored)

\* C39 (part): _set_room_id_for_address(address, room_id), called for any room
\* of the client, leaves room_id at the head of the address's list, followed
\* by the rooms a read returned before, without room_id, in their order; the
\* lists of the other addresses stay as they are.
C39_WritePutsRoomFirst ==
    \A address \in Peers : \A room_id \in client_rooms :
        LET returned == get_room_ids_for_address(address)
            new == set_room_id_for(address_to_room_ids, client_rooms, invite_only, address,
                                   room_id)
        IN  /\ Head(new[address]) = room_id
            /\ NoRepeats(new[address])
            /\ Elements(new[address]) = Elements(returned) \cup {room_id}
            /\ Len(new[address]) > 2 => InOrderOf(Tail(new[address]), returned)
            /\ \A other \in Peers \ {address} : new[other] = address_to_room_ids[other]

\* C39 (part): no stored list holds a room id twice, and a list that a step
\* changes and leaves with rooms has a room of the client at its head.
C39_StoredListsHaveNoRepeats ==
    /\ [](\A address \in Peers : NoRepeats(address_to_room_ids[address]))
    /\ [][\A address \in Peers :
            (/\ address_to_room_ids'[address] # address_to_room_ids[address]
             /\ address_to_room_ids'[address] # <<>>)
                => Head(address_to_room_ids'[address]) \in client_rooms']_vars

\* C39: after _set_room_id_for_address the stored list has the room id at its
\* head, no id twice and the rooms returned before in their order;
\* _get_room_ids_for_address returns the stored ids, in order, whose room is
\* known to the client and invite-only.
C39_RoomListOfAddress ==
    /\ [](C39_ReadIsFilteredList /\ C39_WritePutsRoomFirst)
    /\ C39_StoredListsHaveNoRepeats

\* C39 witness: the partner has two rooms stored, of which a read returns
\* one, the other being not invite-only.
C39_ReadDropsPublicRoom ==
    /\ Len(address_to_room_ids[Partner]) = 2
    /\ Len(get_room_ids_for_address(Partner)) = 1
    /\ Elements(address_to_room_ids[Partner]) \subseteq client_rooms
====
